---- MODULE Spec2Model ----
(***************************************************************************)
(* Model of the sceptic gateway: the NonceManager (sceptic/nonce.py), the  *)
(* JSON-RPC WebSocket server (sceptic/server.py) and the transaction       *)
(* builders its write handlers call (sceptic/erc20.py, sceptic/defi.py).   *)
(* Coroutines are tasks; one action is one run of a coroutine between two  *)
(* await points, as the asyncio event loop executes it.                    *)
(***************************************************************************)
EXTENDS Integers, Sequences, FiniteSets, TLC

\* ---------------------------------------------------------------- bounds
NCallers == 3
NConns == 2
MaxChainCount == 1
MaxResets == 1
MaxMsgs == 2
MaxHead == 2
MaxFails == 2
MaxTimeout == 3
MaxPoll == 2
MaxDelay == 1
MaxHeadQueries == 3
MaxConfirmations == 3
MaxGasPrice == 7
NApplyCalls == 2

\* ------------------------------------------------------------- universes
Callers == 1..NCallers
Conns == (NCallers + 1)..(NCallers + NConns)
Tasks == Callers \cup Conns

\* no holder of a lock; None for an integer
NoTask == 0
NoInt == -1

\* the address spellings callers pass, and their checksummed forms
Spellings == {"0xab", "0xAB", "0xCd"}
Keys == {"0xAb", "0xCd"}
NoAddr == "none"

\* the transaction counts the upstream node may report for an address
ChainCounts == 0..MaxChainCount

VARIABLES
    pc,            \* task -> position of the coroutine
    gnAddr,        \* task -> address argument of its get_next call
    gnRet,         \* task -> value get_next returned
    locks,         \* NonceManager._locks: key -> [holder, waiters], created on demand
    nonces,        \* NonceManager._nonces: key -> next nonce, absent until seeded
    \* history of the nonce manager
    okQueries,     \* key -> number of transaction-count queries that succeeded
    resetCalls,    \* key -> number of reset calls
    firstCount,    \* key -> count reported by the first successful query
    freshReset,    \* key -> a reset completed and no get_next has started since
    afterReset,    \* task -> its call is the first to start after a reset
    queried,       \* task -> count its own call obtained from the chain
    heldAtStart,   \* task -> tasks holding a lock when its call started
    \* configuration (ScepticConfig) and registry of the server
    cfgToken,      \* cfg.server_api_token
    cfgEnabled,    \* cfg.server_enable_methods
    cfgKey,        \* cfg.private_key is set
    handlers,      \* RpcServer.handlers: the registered method names
    \* connections
    conn,          \* connection -> "new", "open", "closed"
    closeCode,     \* connection -> close code the server sent
    wire,          \* connection -> "up", or "down" once the peer is gone
    bearer,        \* connection -> its handshake carried the configured bearer credential
    reqCount,      \* connection -> number of messages read from it
    reqLog,        \* connection -> the messages read from it, in order
    cur,           \* connection -> the request being processed
    pend,          \* connection -> the response about to be sent
    out,           \* connection -> the responses sent to it, in order
    invoked,       \* <<connection, request>> for which a registered handler was called
    subscribers,   \* RpcServer._subscribers
    exc,           \* connection -> message of the exception its handler raised
    txNonce,       \* connection -> nonce read by ERC20._base_tx_params
    submitted,     \* the transactions sent with send_raw_transaction
    \* the block broadcaster and RpcServer.start
    srvpc,         \* position of start(): "serving", "stopping", "finished"
    bpc,           \* position of _block_broadcaster
    lastBlock,     \* RpcServer._last_block
    tickHead,      \* bn, the head the current tick obtained
    curBlock,      \* b, the block being broadcast
    snap,          \* list(self._subscribers) taken by _broadcast_block
    idx,           \* position in snap of the send being awaited
    dead,          \* dead, the subscribers whose send failed in this broadcast
    notes,         \* connection -> block numbers of the events.block notes sent to it
    \* history of the broadcaster
    tickFrom,      \* _last_block when the last tick with new blocks began
    tickDone,      \* that tick ran to its end
    steady,        \* connections subscribed all through that tick, every send to them succeeding
    tickSent,      \* connection -> block numbers sent to it in that tick
    failedSince,   \* connections with a failed note and no events.subscribe of theirs since
    pollFails,     \* failed head queries in a row, counted up to MaxFails
    \* startup (build_default_server) and the rpc.call passthrough
    cfgChainId,    \* cfg.chain_id
    reported,      \* chain id the upstream node reported to assert_chain_id
    probes,        \* attempts of ensure_web3_ready that failed
    cfgRpcAllow,   \* cfg.server_rpc_allow_methods
    \* wait_for_receipt (tx.py)
    wfrPc,         \* position of the call: "query", "sleep", "returned", "timeout", "raised"
    now,           \* asyncio.get_event_loop().time(), in seconds
    timeoutSec,    \* timeout_sec
    pollSec,       \* poll_interval_sec
    deadline,      \* deadline
    seen,          \* outcomes of the receipt queries so far, with their duration
    sleeps,        \* number of asyncio.sleep calls made
    wfrRet,        \* the value returned
    \* ensure_confirmations (tx.py)
    ecPc,          \* position of the call: "query", "sleep", "returned", "raised"
    receipt,       \* receipt
    confirmations, \* confirmations
    heads,         \* the heads its block_number queries obtained, in order
    ecSleeps,      \* number of asyncio.sleep calls made
    ecRet,         \* the value returned
    \* GasStrategy (gas.py)
    legacy_gwei,   \* GasStrategy.legacy_gwei
    priority_gwei, \* GasStrategy.priority_gwei
    max_multiplier,\* GasStrategy.max_multiplier
    gasPc,         \* call of apply -> "idle", "query", "returned", "raised"
    gasBase,       \* call of apply -> base, the gas price the node reported to it
    gasQueries,    \* call of apply -> number of gas_price queries it made
    gasRet,        \* call of apply -> the dict returned
    \* history of the broadcaster's head queries
    obs,           \* what an observer of the head queries has noted
    \* history of NonceManager.reset
    resetAddr,     \* the address, as spelled, of the last reset call
    \* ScepticConfig.from_env (config.py)
    env,           \* os.environ: variable -> whether it is set, and its text
    envCfg         \* what from_env returned, or the exception it raised

nonceVars == <<pc, gnAddr, gnRet, locks, nonces, okQueries,
               resetCalls, firstCount, freshReset, afterReset, queried, heldAtStart>>

gnVars == <<gnAddr, gnRet, locks, nonces, okQueries, resetCalls, firstCount, freshReset,
            afterReset, queried, heldAtStart>>

cfgVars == <<cfgToken, cfgEnabled, cfgKey, handlers>>

srvVars == <<conn, closeCode, wire, bearer, reqCount, reqLog, cur, pend, out, invoked, subscribers,
             txNonce, submitted, exc>>

bcVars == <<srvpc, bpc, lastBlock, tickHead, curBlock, snap, idx, dead, notes,
            tickFrom, tickDone, steady, tickSent, failedSince, pollFails>>

\* the state of the connections, without the subscriber set
connVars == <<conn, closeCode, wire, bearer, reqCount, reqLog, cur, pend, out, invoked,
              txNonce, submitted, exc>>

envVars == <<env, envCfg>>

bootVars == <<cfgChainId, reported, probes, envVars>>

rawVars == <<cfgRpcAllow>>

trkVars == <<wfrPc, now, timeoutSec, pollSec, deadline, seen, sleeps, wfrRet,
             ecPc, receipt, confirmations, heads, ecSleeps, ecRet>>

gasVars == <<legacy_gwei, priority_gwei, max_multiplier, gasPc, gasBase, gasQueries, gasRet>>

histVars == <<obs, resetAddr>>

\* the library beside the gateway
libRest == <<bootVars, rawVars, trkVars, gasVars>>

\* what the gateway's connections and nonce manager never touch
libVars == <<libRest, histVars>>

vars == <<nonceVars, cfgVars, srvVars, bcVars, libVars>>

\* connection c has its events.subscribe processed on this step
Subscribing(c) ==
    /\ reqCount'[c] # reqCount[c]
    /\ reqLog'[c][reqCount'[c]].method = "events.subscribe"
    /\ c \in subscribers'

\* a step of a connection handler leaves the broadcaster alone; its history follows
\* the subscriber set
ConnHistory ==
    /\ steady' = IF tickDone THEN steady ELSE steady \cap subscribers'
    /\ failedSince' = {c \in failedSince : ~Subscribing(c)}
    /\ UNCHANGED <<srvpc, bpc, lastBlock, tickHead, curBlock, snap, idx, dead, notes,
                   tickFrom, tickDone, tickSent>>
    /\ UNCHANGED pollFails
    /\ UNCHANGED libVars

\* ------------------------------------------------------- JSON-RPC messages

NoId == -1                      \* JSON null

\* req.get("method") of a message that has none
NoMethod == "<none>"
Unhashable == "<array>"         \* a method given as a JSON array or object

ErrorResp(k, i, code, m) == [req |-> k, id |-> i, kind |-> "error", code |-> code, body |-> m]
ResultResp(k, i, r) == [req |-> k, id |-> i, kind |-> "result", code |-> 0, body |-> r]
NoResp == [req |-> 0, id |-> NoId, kind |-> "none", code |-> 0, body |-> ""]
NoReq == [method |-> NoMethod, id |-> NoId]

\* ------------------------------------------------------------ NonceManager

\* w3.to_checksum_address
to_checksum_address(a) ==
    CASE a = "0xab" -> "0xAb"
      [] a = "0xAB" -> "0xAb"
      [] a = "0xAb" -> "0xAb"
      [] a = "0xcd" -> "0xCd"
      [] a = "0xCd" -> "0xCd"
      [] OTHER -> a

\* NonceManager._key
Key(a) == to_checksum_address(a)

\* variant: one lock for every address
LockOfShared(k) == "0xAb"

\* the lock get_next takes for key k: self._locks.setdefault(k, asyncio.Lock())
LockOf(k) == k

\* a new asyncio.Lock()
FreeLock == [holder |-> NoTask, waiters |-> <<>>]

\* self._locks after setdefault
WithLock(l) == IF l \in DOMAIN locks THEN locks ELSE [x \in DOMAIN locks \cup {l} |-> IF x = l THEN FreeLock ELSE locks[x]]

\* the tasks inside a critical section
Holders == {locks[l].holder : l \in DOMAIN locks} \ {NoTask}

\* asyncio.Lock.release: the lock passes to the first waiter, which is woken
Released(lk, l) ==
    IF lk[l].waiters = <<>>
    THEN [lk EXCEPT ![l] = FreeLock]
    ELSE [lk EXCEPT ![l] = [holder |-> Head(lk[l].waiters), waiters |-> Tail(lk[l].waiters)]]

\* the waiter release wakes, if there is one
Woken(lk, l) == IF lk[l].waiters = <<>> THEN {} ELSE {Head(lk[l].waiters)}

\* where the coroutine goes when get_next returns / raises: a direct caller is done,
\* defi_swap (server.py line 223) goes on to gas_strategy.apply, or to _handle's except
GnReturnPc(t) == IF t \in Conns THEN "sw_gasprice" ELSE "gn_done"
GnRaisePc(t) == IF t \in Conns THEN "send" ELSE "gn_failed"

\* positions after t moves to newpc and the woken waiters become ready
PcAfter(t, newpc, woken) ==
    [x \in Tasks |-> IF x = t THEN newpc ELSE IF x \in woken THEN "gn_woken" ELSE pc[x]]

\* variant: the nonce is handed out and the counter is left as it is
TakeNoStep(t, k, lk, nn) ==
    LET n == nn[k] IN
    /\ nonces' = nn
    /\ gnRet' = [gnRet EXCEPT ![t] = n]
    /\ locks' = Released(lk, LockOf(k))
    /\ pc' = PcAfter(t, GnReturnPc(t), Woken(lk, LockOf(k)))

\* lines 23-25: n = self._nonces[k]; self._nonces[k] = n + 1; return n (lock released)
Take(t, k, lk, nn) ==
    LET n == nn[k] IN
    /\ nonces' = [x \in DOMAIN nn |-> IF x = k THEN n + 1 ELSE nn[x]]
    /\ gnRet' = [gnRet EXCEPT ![t] = n]
    /\ locks' = Released(lk, LockOf(k))
    /\ pc' = PcAfter(t, GnReturnPc(t), Woken(lk, LockOf(k)))

\* variant: the chain is queried on every call, cached value or not
EnterAlwaysQuery(t, k, lk) ==
    /\ pc' = [pc EXCEPT ![t] = "gn_query"]
    /\ locks' = lk
    /\ UNCHANGED <<nonces, gnRet>>

\* the body of `async with lock`, run by task t holding the lock, up to its first await
Enter(t, k, lk) ==
    IF k \in DOMAIN nonces
    THEN Take(t, k, lk, nonces)
    ELSE /\ pc' = [pc EXCEPT ![t] = "gn_query"]
         /\ locks' = lk
         /\ UNCHANGED <<nonces, gnRet>>

\* get_next(address) is called; the lock is taken at once when it is free
GetNextBegin(t, a) ==
    LET k == Key(a)
        l == LockOf(k)
        lk == WithLock(l)
    IN /\ gnAddr' = [gnAddr EXCEPT ![t] = a]
       /\ afterReset' = [afterReset EXCEPT ![t] = freshReset[k]]
       /\ freshReset' = [freshReset EXCEPT ![k] = FALSE]
       /\ heldAtStart' = [heldAtStart EXCEPT ![t] = Holders]
       /\ IF lk[l].holder = NoTask
          THEN Enter(t, k, [lk EXCEPT ![l].holder = t])
          ELSE /\ locks' = [lk EXCEPT ![l].waiters = Append(@, t)]
               /\ pc' = [pc EXCEPT ![t] = "gn_wait"]
               /\ UNCHANGED <<nonces, gnRet>>
       /\ UNCHANGED <<okQueries, resetCalls, firstCount, queried>>

\* a direct caller of NonceManager.get_next; callers are numbered in the order they call
GetNext(t, a) ==
    /\ t \in Callers
    /\ pc[t] = "idle"
    /\ \A s \in Callers : s < t => pc[s] # "idle"
    /\ GetNextBegin(t, a)
    /\ UNCHANGED <<cfgVars, srvVars>>
    /\ UNCHANGED <<bcVars, libVars>>

\* a waiter that was handed the lock resumes inside `async with lock`
GetNextResume(t) ==
    /\ pc[t] = "gn_woken"
    /\ Enter(t, Key(gnAddr[t]), locks)
    /\ UNCHANGED <<gnAddr, okQueries, resetCalls, firstCount, freshReset,
                   afterReset, queried, heldAtStart>>
    /\ UNCHANGED <<cfgVars, srvVars>>
    /\ UNCHANGED <<bcVars, libVars>>

\* line 22: the awaited get_transaction_count(k) returns the count c the node reports
GetNextQueryOk(t, c) ==
    LET k == Key(gnAddr[t])
        nn == [x \in DOMAIN nonces \cup {k} |-> IF x = k THEN c ELSE nonces[x]]
    IN /\ pc[t] = "gn_query"
       /\ Take(t, k, locks, nn)
       /\ okQueries' = [okQueries EXCEPT ![k] = @ + 1]
       /\ firstCount' = [firstCount EXCEPT ![k] = IF @ = NoInt THEN c ELSE @]
       /\ queried' = [queried EXCEPT ![t] = c]
       /\ UNCHANGED <<gnAddr, resetCalls, freshReset, afterReset, heldAtStart>>
       /\ UNCHANGED <<cfgVars, srvVars>>
       /\ UNCHANGED <<bcVars, libVars>>

\* the failure of the count query reaches _handle's except clause (server.py line 118)
RaisedInHandler(t) ==
    /\ pend' = IF t \in Conns
               THEN [pend EXCEPT ![t] = ErrorResp(reqCount[t], cur[t].id, -32000, "upstream error")]
               ELSE pend
    /\ exc' = IF t \in Conns THEN [exc EXCEPT ![t] = "upstream error"] ELSE exc
    /\ UNCHANGED <<cfgVars, conn, closeCode, wire, bearer, reqCount, reqLog, cur, out, invoked,
                   subscribers, txNonce, submitted>>

\* variant: the failing call leaves with the lock still held
GetNextQueryFailKeepsLock(t) ==
    /\ pc[t] = "gn_query"
    /\ pc' = [pc EXCEPT ![t] = GnRaisePc(t)]
    /\ RaisedInHandler(t)
    /\ UNCHANGED <<locks, gnAddr, gnRet, nonces, okQueries, resetCalls,
                   firstCount, freshReset, afterReset, queried, heldAtStart>>
    /\ UNCHANGED <<bcVars, libVars>>

\* line 22: the awaited query raises; `async with` releases the lock, nothing is stored
GetNextQueryFail(t) ==
    LET k == Key(gnAddr[t]) IN
    /\ pc[t] = "gn_query"
    /\ locks' = Released(locks, LockOf(k))
    /\ pc' = PcAfter(t, GnRaisePc(t), Woken(locks, LockOf(k)))
    /\ RaisedInHandler(t)
    /\ UNCHANGED <<gnAddr, gnRet, nonces, okQueries, resetCalls,
                   firstCount, freshReset, afterReset, queried, heldAtStart>>
    /\ UNCHANGED <<bcVars, libVars>>

\* the reset calls made so far
TotalResets == resetCalls["0xAb"] + resetCalls["0xCd"]

\* variant: reset pops the address as it is spelled, without _key
ResetVerbatim(a) ==
    LET k == Key(a) IN
    /\ TotalResets < MaxResets
    /\ nonces' = [x \in DOMAIN nonces \ {a} |-> nonces[x]]
    /\ resetCalls' = [resetCalls EXCEPT ![k] = @ + 1]
    /\ freshReset' = [freshReset EXCEPT ![k] = TRUE]
    /\ resetAddr' = a
    /\ UNCHANGED <<pc, gnAddr, gnRet, locks, okQueries, firstCount,
                   afterReset, queried, heldAtStart>>
    /\ UNCHANGED <<cfgVars, srvVars>>
    /\ UNCHANGED <<bcVars, libRest, obs>>

\* NonceManager.reset: self._nonces.pop(k, None); it takes no lock
Reset(a) ==
    LET k == Key(a) IN
    /\ TotalResets < MaxResets
    /\ nonces' = [x \in DOMAIN nonces \ {k} |-> nonces[x]]
    /\ resetCalls' = [resetCalls EXCEPT ![k] = @ + 1]
    /\ freshReset' = [freshReset EXCEPT ![k] = TRUE]
    /\ resetAddr' = a
    /\ UNCHANGED <<pc, gnAddr, gnRet, locks, okQueries, firstCount,
                   afterReset, queried, heldAtStart>>
    /\ UNCHANGED <<cfgVars, srvVars>>
    /\ UNCHANGED <<bcVars, libRest, obs>>

\* ------------------------------------------------------------------ server

\* cfg.server_api_token is None
NoToken == "<None>"

\* a comma-separated environment value, as the fields split(",") yields: the text of
\* a field and whether blanks surround it
Field(t, blank) == [text |-> t, pad |-> blank]

\* m.strip() of a field
strip(f) == f.text

\* config.py line 91: the fields are stripped and the empty ones left out
server_enable_methods(v) == {strip(v[i]) : i \in {j \in 1..Len(v) : strip(v[j]) # ""}}

\* values of SCEPTIC_SERVER_ENABLE_METHODS: "*" (also the default when unset), the
\* empty string, "health, nope"
EnableValues ==
    {<<Field("*", FALSE)>>, <<Field("", FALSE)>>, <<Field("health", FALSE), Field("nope", TRUE)>>}

\* allow-lists of cfg.server_enable_methods
EnableLists == {server_enable_methods(v) : v \in EnableValues}

\* the methods build_default_server registers (server.py lines 161-281)
DefaultHandlers ==
    {"health", "price.usd", "erc20.balance", "erc20.allowance", "erc20.transfer",
     "erc20.approve", "defi.quote", "defi.swapExactTokensForTokens", "rpc.call",
     "erc20.permitSign", "multicall.aggregate"}

\* a server whose owner also registered the two event methods with RpcServer.method
EventHandlers == {"events.subscribe", "events.unsubscribe"}

Erc20WriteMethods == {"erc20.transfer", "erc20.approve"}
SwapMethod == "defi.swapExactTokensForTokens"
WriteMethods == Erc20WriteMethods \cup {SwapMethod}

\* acct.address of the configured signing key
SignerAddress == "0xAb"

\* the request headers of a handshake as the handler sees them: absent or empty
\* (present = FALSE), or a dict with the value under "authorization" / "Authorization"
NoHeader == "<None>"
AuthValues == {NoHeader, "Bearer s3cret", "Bearer wrong", "s3cret"}
Handshakes ==
    {[present |-> FALSE, lower |-> NoHeader, upper |-> NoHeader]}
        \cup {[present |-> TRUE, lower |-> v, upper |-> NoHeader] : v \in AuthValues}

\* the handshake carries Authorization: Bearer <token>
CarriesBearer(h) == h.present /\ h.lower = "Bearer " \o cfgToken

\* Python truthiness of an optional string
Falsy(v) == v \in {NoHeader, ""}

\* variant: any Bearer credential is accepted
auth_ok_any_bearer(h) ==
    IF Falsy(cfgToken) THEN TRUE
    ELSE LET auth == IF ~Falsy(h.lower) THEN h.lower ELSE h.upper
         IN auth \in {"Bearer s3cret", "Bearer wrong"}

\* RpcServer._auth_ok
auth_ok(h) ==
    IF Falsy(cfgToken) THEN TRUE
    ELSE LET auth == IF ~Falsy(h.lower) THEN h.lower ELSE h.upper
         IN auth = "Bearer " \o cfgToken

\* start() is inside `async with ws_serve(...)` (lines 134-144): connections are accepted
Listening == srvpc \in {"serving", "stopping"}

\* ws_handler up to _handle: the token check, then close(4401) or the message loop
Connect(c, h) ==
    /\ Listening
    /\ conn[c] = "new"
    /\ \A d \in Conns : d < c => conn[d] # "new"
    /\ bearer' = [bearer EXCEPT ![c] = CarriesBearer(h)]
    /\ IF ~Falsy(cfgToken) /\ (~h.present \/ ~auth_ok(h))
       THEN /\ conn' = [conn EXCEPT ![c] = "closed"]
            /\ closeCode' = [closeCode EXCEPT ![c] = 4401]
            /\ pc' = [pc EXCEPT ![c] = "ended"]
       ELSE /\ conn' = [conn EXCEPT ![c] = "open"]
            /\ pc' = [pc EXCEPT ![c] = "recv"]
            /\ UNCHANGED closeCode
    /\ UNCHANGED <<gnVars, cfgVars, wire, reqCount, reqLog, cur, pend, out, invoked, subscribers,
                   txNonce, submitted, exc>>
    /\ UNCHANGED <<bcVars, libVars>>

\* the peer closes or loses the connection
PeerClose(c) ==
    /\ conn[c] = "open"
    /\ wire[c] = "up"
    /\ wire' = [wire EXCEPT ![c] = "down"]
    /\ UNCHANGED <<nonceVars, cfgVars, conn, closeCode, bearer, reqCount, reqLog, cur, pend, out,
                   invoked, subscribers, txNonce, submitted, exc>>
    /\ UNCHANGED <<bcVars, libVars>>

\* positions where a handler awaits the upstream node outside get_next
AwaitPcs == {"h_call", "raw_call", "tx_count", "tx_send", "sw_gasprice", "sw_send"}

\* params.get("method") of an rpc.call request: None when params has no such key
Inner(m) == IF "inner" \in DOMAIN m THEN m.inner ELSE NoMethod

\* variant: no check of the registry, so the lookup of line 116 raises KeyError
BranchNoLookupCheck(m) ==
    IF m.kind # "request" THEN "parse_error"
    ELSE IF cfgEnabled # {} /\ "*" \notin cfgEnabled /\ m.method \notin cfgEnabled THEN "disabled"
    ELSE IF m.method = Unhashable THEN "type_error"
    ELSE IF m.method \notin handlers THEN "type_error"
    ELSE IF m.method = "events.subscribe" THEN "subscribe"
    ELSE IF m.method = "events.unsubscribe" THEN "unsubscribe"
    ELSE IF m.method \in WriteMethods \cup {"erc20.permitSign"} /\ ~cfgKey THEN "no_key"
    ELSE IF m.method \in Erc20WriteMethods THEN "erc20"
    ELSE IF m.method = SwapMethod THEN "swap"
    ELSE "read"

\* variant: the event methods are served before the allow-list is looked at
BranchGateLast(m) ==
    IF m.kind # "request" THEN "parse_error"
    ELSE IF m.method = Unhashable THEN "type_error"
    ELSE IF m.method \in handlers /\ m.method = "events.subscribe" THEN "subscribe"
    ELSE IF m.method \in handlers /\ m.method = "events.unsubscribe" THEN "unsubscribe"
    ELSE IF cfgEnabled # {} /\ "*" \notin cfgEnabled /\ m.method \notin cfgEnabled THEN "disabled"
    ELSE IF m.method \notin handlers THEN "not_found"
    ELSE IF m.method \in WriteMethods \cup {"erc20.permitSign"} /\ ~cfgKey THEN "no_key"
    ELSE IF m.method \in Erc20WriteMethods THEN "erc20"
    ELSE IF m.method = SwapMethod THEN "swap"
    ELSE "read"

\* variant: the write handlers do not look for the signing key
BranchNoKeyCheck(m) ==
    IF m.kind # "request" THEN "parse_error"
    ELSE IF cfgEnabled # {} /\ "*" \notin cfgEnabled /\ m.method \notin cfgEnabled THEN "disabled"
    ELSE IF m.method = Unhashable THEN "type_error"
    ELSE IF m.method \notin handlers THEN "not_found"
    ELSE IF m.method = "events.subscribe" THEN "subscribe"
    ELSE IF m.method = "events.unsubscribe" THEN "unsubscribe"
    ELSE IF m.method \in Erc20WriteMethods THEN "erc20"
    ELSE IF m.method = SwapMethod THEN "swap"
    ELSE IF m.method = "rpc.call" /\ Inner(m) \notin cfgRpcAllow THEN "not_allowed"
    ELSE IF m.method = "rpc.call" THEN "raw"
    ELSE "read"

\* variant: rpc_call forwards any method
BranchRawNoCheck(m) ==
    IF m.kind # "request" THEN "parse_error"
    ELSE IF cfgEnabled # {} /\ "*" \notin cfgEnabled /\ m.method \notin cfgEnabled THEN "disabled"
    ELSE IF m.method = Unhashable THEN "type_error"
    ELSE IF m.method \notin handlers THEN "not_found"
    ELSE IF m.method = "events.subscribe" THEN "subscribe"
    ELSE IF m.method = "events.unsubscribe" THEN "unsubscribe"
    ELSE IF m.method \in WriteMethods \cup {"erc20.permitSign"} /\ ~cfgKey THEN "no_key"
    ELSE IF m.method \in Erc20WriteMethods THEN "erc20"
    ELSE IF m.method = SwapMethod THEN "swap"
    ELSE IF m.method = "rpc.call" THEN "raw"
    ELSE "read"

\* variant: the gate has no test for an empty list, which then excludes every method
BranchEmptyExcludes(m) ==
    IF m.kind # "request" THEN "parse_error"
    ELSE IF "*" \notin cfgEnabled /\ m.method \notin cfgEnabled THEN "disabled"
    ELSE IF m.method = Unhashable THEN "type_error"
    ELSE IF m.method \notin handlers THEN "not_found"
    ELSE IF m.method = "events.subscribe" THEN "subscribe"
    ELSE IF m.method = "events.unsubscribe" THEN "unsubscribe"
    ELSE IF m.method \in WriteMethods \cup {"erc20.permitSign"} /\ ~cfgKey THEN "no_key"
    ELSE IF m.method \in Erc20WriteMethods THEN "erc20"
    ELSE IF m.method = SwapMethod THEN "swap"
    ELSE IF m.method = "rpc.call" /\ Inner(m) \notin cfgRpcAllow THEN "not_allowed"
    ELSE IF m.method = "rpc.call" THEN "raw"
    ELSE "read"

\* the branch of _handle (lines 93-117) a message takes, with the synchronous start
\* of the handler for a dispatched method
Branch(m) ==
    IF m.kind # "request" THEN "parse_error"
    ELSE IF cfgEnabled # {} /\ "*" \notin cfgEnabled /\ m.method \notin cfgEnabled THEN "disabled"
    ELSE IF m.method = Unhashable THEN "type_error"
    ELSE IF m.method \notin handlers THEN "not_found"
    ELSE IF m.method = "events.subscribe" THEN "subscribe"
    ELSE IF m.method = "events.unsubscribe" THEN "unsubscribe"
    ELSE IF m.method \in WriteMethods \cup {"erc20.permitSign"} /\ ~cfgKey THEN "no_key"
    ELSE IF m.method \in Erc20WriteMethods THEN "erc20"
    ELSE IF m.method = SwapMethod THEN "swap"
    ELSE IF m.method = "rpc.call" /\ Inner(m) \notin cfgRpcAllow THEN "not_allowed"
    ELSE IF m.method = "rpc.call" THEN "raw"
    ELSE "read"

\* the response a branch prepares before any await, if it prepares one
FirstResp(b, k, i) ==
    CASE b = "parse_error" -> ErrorResp(k, NoId, -32000, "parse error")
      [] b = "disabled"    -> ErrorResp(k, i, -32601, "Method disabled")
      [] b = "type_error"  -> ErrorResp(k, i, -32000, "unhashable type")
      [] b = "not_found"   -> ErrorResp(k, i, -32601, "Method not found")
      [] b = "subscribe"   -> ResultResp(k, i, "ok")
      [] b = "unsubscribe" -> ResultResp(k, i, "ok")
      [] b = "no_key"      -> ErrorResp(k, i, -32000, "No private key configured")
      [] b = "not_allowed" -> ErrorResp(k, i, -32000, "RPC method not allowed")
      [] OTHER             -> NoResp

\* the exception raised before any await, if any
FirstExc(b) ==
    CASE b = "parse_error" -> "parse error"
      [] b = "type_error"  -> "unhashable type"
      [] b = "no_key"      -> "No private key configured"
      [] b = "not_allowed" -> "RPC method not allowed"
      [] OTHER             -> ""

\* where the coroutine stands at its first await
FirstPc(b) ==
    CASE b = "read"  -> "h_call"
      [] b = "raw"   -> "raw_call"
      [] b = "erc20" -> "tx_count"
      [] OTHER       -> "send"

\* variant: the next message is read while the handler of the last one still awaits
ReadWhileBusy(c, m) ==
    LET k == reqCount[c] + 1
        b == Branch(m)
        i == IF m.kind = "request" THEN m.id ELSE NoId
        meth == IF m.kind = "request" THEN m.method ELSE NoMethod
    IN /\ conn[c] = "open"
       /\ pc[c] \in {"recv", "h_call"}
       /\ wire[c] = "up"
       /\ reqCount[c] < MaxMsgs
       /\ reqCount' = [reqCount EXCEPT ![c] = k]
       /\ reqLog' = [reqLog EXCEPT ![c] = Append(@, m)]
       /\ cur' = [cur EXCEPT ![c] = [method |-> meth, id |-> i]]
       /\ pend' = [pend EXCEPT ![c] = FirstResp(b, k, i)]
       /\ subscribers' = CASE b = "subscribe" -> subscribers \cup {c}
                           [] b = "unsubscribe" -> subscribers \ {c}
                           [] OTHER -> subscribers
       /\ invoked' = IF b \in {"no_key", "erc20", "swap", "read", "raw", "not_allowed"}
                     THEN invoked \cup {<<c, k>>} ELSE invoked
       /\ exc' = [exc EXCEPT ![c] = FirstExc(b)]
       /\ IF b = "swap"
          THEN GetNextBegin(c, SignerAddress)
          ELSE /\ pc' = [pc EXCEPT ![c] = FirstPc(b)]
               /\ UNCHANGED gnVars
       /\ UNCHANGED <<cfgVars, conn, closeCode, wire, bearer, out, txNonce, submitted>>
       /\ ConnHistory

\* one iteration of `async for raw in ws` in _handle, up to its first await
Read(c, m) ==
    LET k == reqCount[c] + 1
        b == Branch(m)
        i == IF m.kind = "request" THEN m.id ELSE NoId
        meth == IF m.kind = "request" THEN m.method ELSE NoMethod
    IN /\ conn[c] = "open"
       /\ pc[c] = "recv"
       /\ wire[c] = "up"
       /\ reqCount[c] < MaxMsgs
       /\ reqCount' = [reqCount EXCEPT ![c] = k]
       /\ reqLog' = [reqLog EXCEPT ![c] = Append(@, m)]
       /\ cur' = [cur EXCEPT ![c] = [method |-> meth, id |-> i]]
       /\ pend' = [pend EXCEPT ![c] = FirstResp(b, k, i)]
       /\ subscribers' = CASE b = "subscribe" -> subscribers \cup {c}
                           [] b = "unsubscribe" -> subscribers \ {c}
                           [] OTHER -> subscribers
       /\ invoked' = IF b \in {"no_key", "erc20", "swap", "read", "raw", "not_allowed"}
                     THEN invoked \cup {<<c, k>>} ELSE invoked
       /\ exc' = [exc EXCEPT ![c] = FirstExc(b)]
       /\ IF b = "swap"
          THEN GetNextBegin(c, SignerAddress)
          ELSE /\ pc' = [pc EXCEPT ![c] = FirstPc(b)]
               /\ UNCHANGED gnVars
       /\ UNCHANGED <<cfgVars, conn, closeCode, wire, bearer, out, txNonce, submitted>>
       /\ ConnHistory

\* variant: ws_handler has no finally clause and the subscriber stays in the set
RecvClosedKeeps(c) ==
    /\ conn[c] = "open"
    /\ pc[c] = "recv"
    /\ wire[c] = "down"
    /\ conn' = [conn EXCEPT ![c] = "closed"]
    /\ pc' = [pc EXCEPT ![c] = "ended"]
    /\ UNCHANGED <<gnVars, cfgVars, closeCode, wire, bearer, reqCount, reqLog, cur, pend, out,
                   invoked, txNonce, submitted, exc, subscribers>>
    /\ ConnHistory

\* the iteration over the connection ends because the peer is gone; ws_handler's
\* finally clause discards the subscriber
RecvClosed(c) ==
    /\ conn[c] = "open"
    /\ pc[c] = "recv"
    /\ wire[c] = "down"
    /\ conn' = [conn EXCEPT ![c] = "closed"]
    /\ pc' = [pc EXCEPT ![c] = "ended"]
    /\ subscribers' = subscribers \ {c}
    /\ UNCHANGED <<gnVars, cfgVars, closeCode, wire, bearer, reqCount, reqLog, cur, pend, out,
                   invoked, txNonce, submitted, exc>>
    /\ ConnHistory

\* variant: an error response is sent in the try block and again in the except clause
SendTwice(c) ==
    /\ pc[c] = "send"
    /\ wire[c] = "up"
    /\ out' = [out EXCEPT ![c] = IF pend[c].kind = "error" THEN Append(Append(@, pend[c]), pend[c])
                                 ELSE Append(@, pend[c])]
    /\ pend' = [pend EXCEPT ![c] = NoResp]
    /\ cur' = [cur EXCEPT ![c] = NoReq]
    /\ pc' = [pc EXCEPT ![c] = "recv"]
    /\ UNCHANGED <<gnVars, cfgVars, conn, closeCode, wire, bearer, reqCount, reqLog, invoked,
                   subscribers, txNonce, submitted, exc>>
    /\ UNCHANGED <<bcVars, libVars>>

\* await ws.send(...) of the prepared response; the loop goes on to the next message
Send(c) ==
    /\ pc[c] = "send"
    /\ wire[c] = "up"
    /\ out' = [out EXCEPT ![c] = Append(@, pend[c])]
    /\ pend' = [pend EXCEPT ![c] = NoResp]
    /\ cur' = [cur EXCEPT ![c] = NoReq]
    /\ pc' = [pc EXCEPT ![c] = "recv"]
    /\ UNCHANGED <<gnVars, cfgVars, conn, closeCode, wire, bearer, reqCount, reqLog, invoked,
                   subscribers, txNonce, submitted, exc>>
    /\ UNCHANGED <<bcVars, libVars>>

\* ws.send raises on a closed connection, in the try block and again in the except
\* clause: _handle ends with the exception and ws_handler's finally clause runs
SendFail(c) ==
    /\ pc[c] = "send"
    /\ wire[c] = "down"
    /\ conn' = [conn EXCEPT ![c] = "closed"]
    /\ pc' = [pc EXCEPT ![c] = "ended"]
    /\ pend' = [pend EXCEPT ![c] = NoResp]
    /\ subscribers' = subscribers \ {c}
    /\ UNCHANGED <<gnVars, cfgVars, closeCode, wire, bearer, reqCount, reqLog, cur, out, invoked,
                   txNonce, submitted, exc>>
    /\ ConnHistory

\* a read handler (health, erc20.balance, ...) gets its answer from the node and returns;
\* so does rpc_call when RawRpc.call (line 242) returns the result of the node
HandlerReturn(c) ==
    /\ pc[c] \in {"h_call", "raw_call"}
    /\ pend' = [pend EXCEPT ![c] = ResultResp(reqCount[c], cur[c].id, "result")]
    /\ pc' = [pc EXCEPT ![c] = "send"]
    /\ UNCHANGED <<gnVars, cfgVars, conn, closeCode, wire, bearer, reqCount, reqLog, cur, out,
                   invoked, subscribers, txNonce, submitted, exc>>
    /\ UNCHANGED <<bcVars, libVars>>

\* messages of the exceptions awaited calls raise
HandlerErrors == {"upstream error", "execution reverted"}

\* variant: the exception of a handler escapes _handle and ends the connection
HandlerRaiseCloses(c, e) ==
    /\ pc[c] \in AwaitPcs
    /\ conn' = [conn EXCEPT ![c] = "closed"]
    /\ pc' = [pc EXCEPT ![c] = "ended"]
    /\ UNCHANGED <<gnVars, cfgVars, closeCode, wire, bearer, reqCount, reqLog, cur, out, pend,
                   invoked, subscribers, txNonce, submitted, exc>>
    /\ UNCHANGED <<bcVars, libVars>>

\* variant: a handler that fails after get_next gives its nonce back to the counter
HandlerRaiseGivesBack(c, e) ==
    /\ pc[c] \in AwaitPcs
    /\ pend' = [pend EXCEPT ![c] = ErrorResp(reqCount[c], cur[c].id, -32000, e)]
    /\ exc' = [exc EXCEPT ![c] = e]
    /\ pc' = [pc EXCEPT ![c] = "send"]
    /\ nonces' = IF pc[c] \in {"sw_gasprice", "sw_send"}
                 THEN [nonces EXCEPT ![Key(SignerAddress)] = gnRet[c]]
                 ELSE nonces
    /\ UNCHANGED <<gnAddr, gnRet, locks, okQueries, resetCalls, firstCount, freshReset,
                   afterReset, queried, heldAtStart>>
    /\ UNCHANGED <<cfgVars, conn, closeCode, wire, bearer, reqCount, reqLog, cur, out,
                   invoked, subscribers, txNonce, submitted>>
    /\ UNCHANGED <<bcVars, libVars>>

\* an awaited call of a handler raises e: line 118 answers with code -32000 and str(e)
HandlerRaise(c, e) ==
    /\ pc[c] \in AwaitPcs
    /\ pend' = [pend EXCEPT ![c] = ErrorResp(reqCount[c], cur[c].id, -32000, e)]
    /\ exc' = [exc EXCEPT ![c] = e]
    /\ pc' = [pc EXCEPT ![c] = "send"]
    /\ UNCHANGED <<gnVars, cfgVars, conn, closeCode, wire, bearer, reqCount, reqLog, cur, out,
                   invoked, subscribers, txNonce, submitted>>
    /\ UNCHANGED <<bcVars, libVars>>

\* a decimal number mant * 10^-exp: the gwei amounts of the configuration
NoGwei == [mant |-> NoInt, exp |-> 0]      \* None
GweiAmounts ==
    {[mant |-> 0, exp |-> 0], [mant |-> 1, exp |-> 0], [mant |-> 15, exp |-> 1],
     [mant |-> 2, exp |-> 0], [mant |-> 25, exp |-> 10]}

\* max_multiplier as the fraction num / den: 1.2, 1.5, 1.0
Multipliers == {[num |-> 6, den |-> 5], [num |-> 3, den |-> 2], [num |-> 1, den |-> 1]}

\* the gas prices, in wei, the node may report
GasPrices == 0..MaxGasPrice

RECURSIVE Pow10(_)
Pow10(n) == IF n = 0 THEN 1 ELSE 10 * Pow10(n - 1)

\* the unit "gwei" in wei
WeiPerGwei == 1000000000

\* w3.to_wei(v, "gwei"): v * 10^9, truncated to an integer number of wei
to_wei(v) ==
    IF v.exp <= 9 THEN v.mant * (WeiPerGwei \div Pow10(v.exp)) ELSE v.mant \div Pow10(v.exp - 9)

\* math.floor(base * self.max_multiplier)
max_fee(base, m) == (base * m.num) \div m.den

\* the dicts apply returns
LegacyFees(g) == [gasPrice |-> to_wei(g)]
Eip1559Fees(base, m, p) == [maxFeePerGas |-> max_fee(base, m), maxPriorityFeePerGas |-> to_wei(p)]
NoFees == [none |-> TRUE]

\* the keyword parameters of UniV2Router.swap_exact_tokens_for_tokens (defi.py lines
\* 60-64); it takes no **kwargs
SwapKeywords == {"gas", "gas_price", "max_fee_per_gas", "max_priority_fee_per_gas", "nonce"}

\* the call f(..., **fees, nonce=nonce) of server.py lines 225-234 binds its arguments:
\* every key of the dict must name a parameter, else the call raises TypeError
Binds(fees) == DOMAIN fees \subseteq SwapKeywords

\* the fee dict defi_swap gets from gas_strategy.apply (server.py line 224) when the
\* node reports the gas price base: the strategy is GasStrategy(), with no legacy price
SwapFees(base, m, p) == Eip1559Fees(base, m, p)

\* GasStrategy.apply (gas.py line 18): the awaited gas_price of defi_swap returns, apply
\* returns its dict and line 225 calls the router with it. The chain_id and
\* estimate_gas awaits of the builders change nothing of the gateway and are part of
\* the await that follows them.
GasPriceOk(c) ==
    /\ pc[c] = "sw_gasprice"
    /\ \E base \in GasPrices :
          LET fees == SwapFees(base, max_multiplier, priority_gwei) IN
          IF Binds(fees)
          THEN /\ gasRet' = [gasRet EXCEPT ![c] = fees]
               /\ pc' = [pc EXCEPT ![c] = "sw_send"]
               /\ UNCHANGED <<pend, exc>>
          ELSE /\ pend' = [pend EXCEPT ![c] = ErrorResp(reqCount[c], cur[c].id, -32000,
                                                         "unexpected keyword argument")]
               /\ exc' = [exc EXCEPT ![c] = "unexpected keyword argument"]
               /\ pc' = [pc EXCEPT ![c] = "send"]
               /\ UNCHANGED gasRet
    /\ UNCHANGED <<gnVars, cfgVars, conn, closeCode, wire, bearer, reqCount, reqLog, cur, out,
                   invoked, subscribers, txNonce, submitted>>
    /\ UNCHANGED <<legacy_gwei, priority_gwei, max_multiplier, gasPc, gasBase, gasQueries>>
    /\ UNCHANGED <<bcVars, bootVars, rawVars, trkVars, histVars>>

\* ERC20._base_tx_params line 78: with no tx_params the nonce is the node's count
TxCountOk(c, n) ==
    /\ pc[c] = "tx_count"
    /\ txNonce' = [txNonce EXCEPT ![c] = n]
    /\ pc' = [pc EXCEPT ![c] = "tx_send"]
    /\ UNCHANGED <<gnVars, cfgVars, conn, closeCode, wire, bearer, reqCount, reqLog, cur, pend, out,
                   invoked, subscribers, submitted, exc>>
    /\ UNCHANGED <<bcVars, libVars>>

\* send_raw_transaction returns the hash; the handler returns {"tx_hash": ...}
SubmitOk(c) ==
    /\ pc[c] \in {"tx_send", "sw_send"}
    /\ submitted' = submitted \cup
          {[conn |-> c, req |-> reqCount[c], method |-> cur[c].method,
            nonce |-> IF pc[c] = "sw_send" THEN gnRet[c] ELSE txNonce[c],
            fees |-> IF pc[c] = "sw_send" THEN gasRet[c] ELSE NoFees]}
    /\ pend' = [pend EXCEPT ![c] = ResultResp(reqCount[c], cur[c].id, "tx_hash")]
    /\ pc' = [pc EXCEPT ![c] = "send"]
    /\ UNCHANGED <<gnVars, cfgVars, conn, closeCode, wire, bearer, reqCount, reqLog, cur, out,
                   invoked, subscribers, txNonce, exc>>
    /\ UNCHANGED <<bcVars, libVars>>

\* ------------------------------------------------------------ broadcaster

\* the block numbers the upstream node may report as its head
Heads == 0..MaxHead

\* list(self._subscribers): the members of a set in some order
SeqsOf(S) ==
    {q \in [1..Cardinality(S) -> S] : \A i, j \in 1..Cardinality(S) : i # j => q[i] # q[j]}

\* range(a, b + 1) as a list
Run(a, b) == [i \in 1..(b - a + 1) |-> a + i - 1]

\* variant: a tick announces its head only and skips the blocks before it
BroadcastHeadOnly(b, h, subs) ==
    IF b > h \/ subs = {}
    THEN /\ lastBlock' = h
         /\ bpc' = "sleep"
         /\ curBlock' = NoInt
         /\ snap' = <<>>
         /\ idx' = 0
         /\ dead' = {}
         /\ tickDone' = TRUE
    ELSE /\ lastBlock' = lastBlock
         /\ bpc' = "bcast"
         /\ curBlock' = h
         /\ snap' \in SeqsOf(subs)
         /\ idx' = 1
         /\ dead' = {}
         /\ tickDone' = FALSE

\* the loop of line 85 goes on with block b of a tick whose head is h, the subscriber
\* set being subs, up to its next await: the first send of a broadcast, or, when no
\* block or no subscriber is left, the sleep after _last_block = bn
Broadcast(b, h, subs) ==
    IF b > h \/ subs = {}
    THEN /\ lastBlock' = h
         /\ bpc' = "sleep"
         /\ curBlock' = NoInt
         /\ snap' = <<>>
         /\ idx' = 0
         /\ dead' = {}
         /\ tickDone' = TRUE
    ELSE /\ lastBlock' = lastBlock
         /\ bpc' = "bcast"
         /\ curBlock' = b
         /\ snap' \in SeqsOf(subs)
         /\ idx' = 1
         /\ dead' = {}
         /\ tickDone' = FALSE

\* the notes of an observer of the head queries: whether the query of line 76 failed,
\* the head the first successful query of a tick returned after that, the head the
\* last successful query of a tick returned, and the value of _last_block when a tick
\* last obtained a lower head. An observer that is off notes nothing.
NoObs ==
    [on |-> FALSE, initFailed |-> FALSE, adopted |-> NoInt, head |-> NoInt, regressedAt |-> NoInt]
Observing == [NoObs EXCEPT !.on = TRUE]

\* the observer sees the query of line 76 fail
ObserveInitFail ==
    /\ obs' = IF obs.on THEN [obs EXCEPT !.initFailed = TRUE] ELSE obs
    /\ UNCHANGED resetAddr

\* the observer sees the query of a tick return h
ObservePoll(h) ==
    /\ obs' = IF ~obs.on THEN obs
              ELSE [obs EXCEPT !.adopted = IF obs.initFailed /\ @ = NoInt THEN h ELSE @,
                               !.head = h,
                               !.regressedAt = IF h < lastBlock THEN lastBlock ELSE @]
    /\ UNCHANGED resetAddr

\* lines 75-76: the first head query returns h; the loop starts its first query
BcInitOk(h) ==
    /\ srvpc = "serving"
    /\ bpc = "init"
    /\ lastBlock' = h
    /\ bpc' = "poll"
    /\ UNCHANGED <<srvpc, tickHead, curBlock, snap, idx, dead, notes, tickFrom, tickDone,
                   steady, tickSent, failedSince>>
    /\ UNCHANGED <<nonceVars, cfgVars, srvVars>>
    /\ UNCHANGED pollFails
    /\ UNCHANGED libVars

\* variant: after a failed first query the baseline is block 0
BcInitFailFromZero ==
    /\ srvpc = "serving"
    /\ bpc = "init"
    /\ lastBlock' = 0
    /\ bpc' = "poll"
    /\ UNCHANGED <<srvpc, tickHead, curBlock, snap, idx, dead, notes, tickFrom, tickDone,
                   steady, tickSent, failedSince>>
    /\ UNCHANGED <<nonceVars, cfgVars, srvVars>>
    /\ UNCHANGED pollFails
    /\ ObserveInitFail
    /\ UNCHANGED libRest

\* lines 77-78: the first head query raises; _last_block = None
BcInitFail ==
    /\ srvpc = "serving"
    /\ bpc = "init"
    /\ lastBlock' = NoInt
    /\ bpc' = "poll"
    /\ UNCHANGED <<srvpc, tickHead, curBlock, snap, idx, dead, notes, tickFrom, tickDone,
                   steady, tickSent, failedSince>>
    /\ UNCHANGED <<nonceVars, cfgVars, srvVars>>
    /\ UNCHANGED pollFails
    /\ ObserveInitFail
    /\ UNCHANGED libRest

\* variant: a tick reacts to any head that differs from _last_block
BcPollOkAnyChange(h) ==
    /\ srvpc = "serving"
    /\ bpc = "poll"
    /\ IF lastBlock = NoInt
       THEN /\ lastBlock' = h
            /\ bpc' = "sleep"
            /\ UNCHANGED <<tickHead, curBlock, snap, idx, dead, tickFrom, tickDone, steady, tickSent>>
       ELSE IF h # lastBlock
       THEN /\ tickHead' = h
            /\ tickFrom' = lastBlock
            /\ steady' = subscribers
            /\ tickSent' = [c \in Conns |-> <<>>]
            /\ Broadcast(lastBlock + 1, h, subscribers)
       ELSE /\ bpc' = "sleep"
            /\ UNCHANGED <<lastBlock, tickHead, curBlock, snap, idx, dead, tickFrom, tickDone,
                           steady, tickSent>>
    /\ UNCHANGED <<srvpc, notes, failedSince>>
    /\ UNCHANGED <<nonceVars, cfgVars, srvVars>>
    /\ pollFails' = 0
    /\ ObservePoll(h)
    /\ UNCHANGED libRest

\* lines 81-87: the head query of a tick returns h
BcPollOk(h) ==
    /\ srvpc = "serving"
    /\ bpc = "poll"
    /\ IF lastBlock = NoInt
       THEN /\ lastBlock' = h
            /\ bpc' = "sleep"
            /\ UNCHANGED <<tickHead, curBlock, snap, idx, dead, tickFrom, tickDone, steady, tickSent>>
       ELSE IF h > lastBlock
       THEN /\ tickHead' = h
            /\ tickFrom' = lastBlock
            /\ steady' = subscribers
            /\ tickSent' = [c \in Conns |-> <<>>]
            /\ Broadcast(lastBlock + 1, h, subscribers)
       ELSE /\ bpc' = "sleep"
            /\ UNCHANGED <<lastBlock, tickHead, curBlock, snap, idx, dead, tickFrom, tickDone,
                           steady, tickSent>>
    /\ UNCHANGED <<srvpc, notes, failedSince>>
    /\ UNCHANGED <<nonceVars, cfgVars, srvVars>>
    /\ pollFails' = 0
    /\ ObservePoll(h)
    /\ UNCHANGED libRest

\* variant: the exception of the head query is not caught and ends the task
BcPollFailEnds ==
    /\ srvpc = "serving"
    /\ bpc = "poll"
    /\ bpc' = "stopped"
    /\ UNCHANGED <<srvpc, lastBlock, tickHead, curBlock, snap, idx, dead, notes, tickFrom,
                   tickDone, steady, tickSent, failedSince>>
    /\ UNCHANGED <<nonceVars, cfgVars, srvVars>>
    /\ pollFails' = IF pollFails < MaxFails THEN pollFails + 1 ELSE MaxFails
    /\ UNCHANGED libVars

\* lines 88-90: the head query of a tick raises; the error is logged and the loop sleeps
BcPollFail ==
    /\ srvpc = "serving"
    /\ bpc = "poll"
    /\ bpc' = "sleep"
    /\ UNCHANGED <<srvpc, lastBlock, tickHead, curBlock, snap, idx, dead, notes, tickFrom,
                   tickDone, steady, tickSent, failedSince>>
    /\ UNCHANGED <<nonceVars, cfgVars, srvVars>>
    /\ pollFails' = IF pollFails < MaxFails THEN pollFails + 1 ELSE MaxFails
    /\ UNCHANGED libVars

\* line 90: asyncio.sleep is over and the next head query is awaited
BcWake ==
    /\ srvpc = "serving"
    /\ bpc = "sleep"
    /\ bpc' = "poll"
    /\ UNCHANGED <<srvpc, lastBlock, tickHead, curBlock, snap, idx, dead, notes, tickFrom,
                   tickDone, steady, tickSent, failedSince>>
    /\ UNCHANGED <<nonceVars, cfgVars, srvVars>>
    /\ UNCHANGED pollFails
    /\ UNCHANGED libVars

\* the rest of _broadcast_block after the send to snap[idx], dd being the dead list:
\* the next send, or lines 66-67 and the next block
AfterSend(dd, st) ==
    IF idx < Len(snap)
    THEN /\ idx' = idx + 1
         /\ dead' = dd
         /\ steady' = st
         /\ UNCHANGED <<subscribers, lastBlock, bpc, curBlock, snap, tickDone>>
    ELSE /\ subscribers' = subscribers \ dd
         /\ steady' = st \ dd
         /\ Broadcast(curBlock + 1, tickHead, subscribers \ dd)

\* line 63: the awaited sub.send(note) returns
BcSendOk ==
    LET c == snap[idx] IN
    /\ srvpc = "serving"
    /\ bpc = "bcast"
    /\ conn[c] = "open"
    /\ wire[c] = "up"
    /\ notes' = [notes EXCEPT ![c] = Append(@, curBlock)]
    /\ tickSent' = [tickSent EXCEPT ![c] = Append(@, curBlock)]
    /\ AfterSend(dead, steady)
    /\ UNCHANGED <<srvpc, tickHead, tickFrom, failedSince>>
    /\ UNCHANGED <<nonceVars, cfgVars, connVars>>
    /\ UNCHANGED pollFails
    /\ UNCHANGED libVars

\* variant: the exception of a send is not caught in the loop, so the broadcast of
\* the block stops there, the tick of line 88 catching it
BcSendFailAborts ==
    LET c == snap[idx] IN
    /\ srvpc = "serving"
    /\ bpc = "bcast"
    /\ failedSince' = failedSince \cup {c}
    /\ steady' = steady \ {c}
    /\ bpc' = "sleep"
    /\ curBlock' = NoInt
    /\ snap' = <<>>
    /\ idx' = 0
    /\ dead' = {}
    /\ UNCHANGED <<srvpc, lastBlock, tickHead, tickFrom, tickDone, notes, tickSent, subscribers>>
    /\ UNCHANGED <<nonceVars, cfgVars, connVars>>
    /\ UNCHANGED pollFails
    /\ UNCHANGED libVars

\* variant: the exception of a send leaves _broadcast_block and the loop, and the
\* task ends
BcSendFailEnds ==
    LET c == snap[idx] IN
    /\ srvpc = "serving"
    /\ bpc = "bcast"
    /\ failedSince' = failedSince \cup {c}
    /\ steady' = steady \ {c}
    /\ bpc' = "stopped"
    /\ UNCHANGED <<srvpc, lastBlock, tickHead, tickFrom, tickDone, notes, tickSent, subscribers,
                   curBlock, snap, idx, dead>>
    /\ UNCHANGED <<nonceVars, cfgVars, connVars>>
    /\ UNCHANGED pollFails
    /\ UNCHANGED libVars

\* lines 64-65: the awaited sub.send(note) raises and the subscriber is put on the dead list
BcSendFail ==
    LET c == snap[idx] IN
    /\ srvpc = "serving"
    /\ bpc = "bcast"
    /\ failedSince' = failedSince \cup {c}
    /\ AfterSend(dead \cup {c}, steady \ {c})
    /\ UNCHANGED <<srvpc, tickHead, tickFrom, notes, tickSent>>
    /\ UNCHANGED <<nonceVars, cfgVars, connVars>>
    /\ UNCHANGED pollFails
    /\ UNCHANGED libVars

\* start() leaves `await asyncio.Future()`: lines 140-144 cancel the broadcaster task and
\* await it
StartShutdown ==
    /\ srvpc = "serving"
    /\ srvpc' = "stopping"
    /\ UNCHANGED <<bpc, lastBlock, tickHead, curBlock, snap, idx, dead, notes, tickFrom,
                   tickDone, steady, tickSent, failedSince>>
    /\ UNCHANGED <<nonceVars, cfgVars, srvVars>>
    /\ UNCHANGED pollFails
    /\ UNCHANGED libVars

\* the cancelled broadcaster is resumed with CancelledError at the await it is suspended
\* on; no except clause of it catches CancelledError and the task ends
BcCancelled ==
    /\ srvpc = "stopping"
    /\ bpc # "stopped"
    /\ bpc' = "stopped"
    /\ UNCHANGED <<srvpc, lastBlock, tickHead, curBlock, snap, idx, dead, notes, tickFrom,
                   tickDone, steady, tickSent, failedSince>>
    /\ UNCHANGED <<nonceVars, cfgVars, srvVars>>
    /\ UNCHANGED pollFails
    /\ UNCHANGED libVars

\* variant: start() cancels the broadcaster and finishes without awaiting the task
StartFinishNoWait ==
    /\ srvpc = "stopping"
    /\ srvpc' = "finished"
    /\ conn' = [c \in Conns |-> "closed"]
    /\ closeCode' = [c \in Conns |-> IF conn[c] = "open" THEN 1001 ELSE closeCode[c]]
    /\ pc' = [t \in Tasks |-> IF t \in Conns THEN "ended" ELSE pc[t]]
    /\ subscribers' = {}
    /\ UNCHANGED <<bpc, lastBlock, tickHead, curBlock, snap, idx, dead, notes, tickFrom,
                   tickDone, steady, tickSent, failedSince>>
    /\ UNCHANGED <<gnVars, cfgVars, wire, bearer, reqCount, reqLog, cur, pend, out, invoked,
                   txNonce, submitted, exc>>
    /\ UNCHANGED pollFails
    /\ UNCHANGED libVars

\* line 144 returns once the broadcaster task is over; leaving `async with ws_serve`
\* closes the open connections, whose handlers end through their finally clause
StartFinish ==
    /\ srvpc = "stopping"
    /\ bpc = "stopped"
    /\ srvpc' = "finished"
    /\ conn' = [c \in Conns |-> "closed"]
    /\ closeCode' = [c \in Conns |-> IF conn[c] = "open" THEN 1001 ELSE closeCode[c]]
    /\ pc' = [t \in Tasks |-> IF t \in Conns THEN "ended" ELSE pc[t]]
    /\ subscribers' = {}
    /\ UNCHANGED <<bpc, lastBlock, tickHead, curBlock, snap, idx, dead, notes, tickFrom,
                   tickDone, steady, tickSent, failedSince>>
    /\ UNCHANGED <<gnVars, cfgVars, wire, bearer, reqCount, reqLog, cur, pend, out, invoked,
                   txNonce, submitted, exc>>
    /\ UNCHANGED pollFails
    /\ UNCHANGED libVars

\* ------------------------------------------- transaction lifecycle (tx.py)

\* the receipts the node may return for the transaction: a dict with its keys. A
\* pending transaction has blockNumber None, or no such key at all.
Receipts ==
    {[transactionHash |-> "0xt1", blockNumber |-> b, status |-> 1] : b \in {NoInt} \cup Heads}
        \cup {[transactionHash |-> "0xt1", status |-> 1]}

\* a receipt the node reports for a mined transaction
MinedReceipts == {r \in Receipts : "blockNumber" \in DOMAIN r /\ r.blockNumber # NoInt}

\* the value of a name not bound yet
NoReceipt == [none |-> TRUE]

\* timeout_sec and poll_interval_sec of a call; the seconds a query may take and a sleep
\* may last beyond its interval
Timeouts == 0..MaxTimeout
PollIntervals == 1..MaxPoll
Delays == 0..MaxDelay

\* the number of receipt queries started
Polls == Len(seen) + (IF wfrPc = "query" THEN 1 ELSE 0)

\* wait_for_receipt lines 14-18: the deadline is computed and the first query awaited
wait_for_receipt(t, p) ==
    /\ wfrPc = "idle"
    /\ timeoutSec' = t
    /\ pollSec' = p
    /\ deadline' = now + t
    /\ wfrPc' = "query"
    /\ UNCHANGED <<now, seen, sleeps, wfrRet>>
    /\ UNCHANGED <<ecPc, receipt, confirmations, heads, ecSleeps, ecRet>>
    /\ UNCHANGED <<nonceVars, cfgVars, srvVars, bcVars, bootVars, rawVars, gasVars, histVars>>

\* variant: a receipt is returned only when the next poll finds it again
WfrReceiptNextPoll(r, d) ==
    /\ wfrPc = "query"
    /\ now' = now + d
    /\ seen' = Append(seen, [out |-> "receipt", rec |-> r, dur |-> d])
    /\ IF seen # <<>> /\ seen[Len(seen)].out = "receipt"
       THEN /\ wfrPc' = "returned"
            /\ wfrRet' = r
            /\ UNCHANGED sleeps
       ELSE /\ wfrPc' = "sleep"
            /\ sleeps' = sleeps + 1
            /\ UNCHANGED wfrRet
    /\ UNCHANGED <<timeoutSec, pollSec, deadline>>
    /\ UNCHANGED <<ecPc, receipt, confirmations, heads, ecSleeps, ecRet>>
    /\ UNCHANGED <<nonceVars, cfgVars, srvVars, bcVars, bootVars, rawVars, gasVars, histVars>>

\* lines 18-20: the query, d seconds after it began, returns receipt r, which is returned
WfrReceipt(r, d) ==
    /\ wfrPc = "query"
    /\ now' = now + d
    /\ seen' = Append(seen, [out |-> "receipt", rec |-> r, dur |-> d])
    /\ wfrPc' = "returned"
    /\ wfrRet' = r
    /\ UNCHANGED <<timeoutSec, pollSec, deadline, sleeps>>
    /\ UNCHANGED <<ecPc, receipt, confirmations, heads, ecSleeps, ecRet>>
    /\ UNCHANGED <<nonceVars, cfgVars, srvVars, bcVars, bootVars, rawVars, gasVars, histVars>>

\* lines 23-25 at time t: TimeoutError past the deadline, else the sleep begins
AfterPoll(t) ==
    IF t > deadline
    THEN /\ wfrPc' = "timeout"
         /\ UNCHANGED sleeps
    ELSE /\ wfrPc' = "sleep"
         /\ sleeps' = sleeps + 1

\* lines 18-19: the query returns None after d seconds
WfrNone(d) ==
    /\ wfrPc = "query"
    /\ now' = now + d
    /\ seen' = Append(seen, [out |-> "none", rec |-> NoReceipt, dur |-> d])
    /\ AfterPoll(now + d)
    /\ UNCHANGED <<timeoutSec, pollSec, deadline, wfrRet>>
    /\ UNCHANGED <<ecPc, receipt, confirmations, heads, ecSleeps, ecRet>>
    /\ UNCHANGED <<nonceVars, cfgVars, srvVars, bcVars, bootVars, rawVars, gasVars, histVars>>

\* variant: the exception of a query is not caught
WfrFailRaises(d) ==
    /\ wfrPc = "query"
    /\ now' = now + d
    /\ seen' = Append(seen, [out |-> "fail", rec |-> NoReceipt, dur |-> d])
    /\ wfrPc' = "raised"
    /\ UNCHANGED <<timeoutSec, pollSec, deadline, wfrRet, sleeps>>
    /\ UNCHANGED <<ecPc, receipt, confirmations, heads, ecSleeps, ecRet>>
    /\ UNCHANGED <<nonceVars, cfgVars, srvVars, bcVars, bootVars, rawVars, gasVars, histVars>>

\* lines 21-22: the query raises after d seconds (TransactionNotFound, a transport
\* error, ...), which the except clause passes over
WfrFail(d) ==
    /\ wfrPc = "query"
    /\ now' = now + d
    /\ seen' = Append(seen, [out |-> "fail", rec |-> NoReceipt, dur |-> d])
    /\ AfterPoll(now + d)
    /\ UNCHANGED <<timeoutSec, pollSec, deadline, wfrRet>>
    /\ UNCHANGED <<ecPc, receipt, confirmations, heads, ecSleeps, ecRet>>
    /\ UNCHANGED <<nonceVars, cfgVars, srvVars, bcVars, bootVars, rawVars, gasVars, histVars>>

\* variant: the deadline is tested when the sleep is over, before the next query
WfrWakeTestsDeadline(x) ==
    /\ wfrPc = "sleep"
    /\ now' = now + pollSec + x
    /\ wfrPc' = (IF now + pollSec + x > deadline THEN "timeout" ELSE "query")
    /\ UNCHANGED <<timeoutSec, pollSec, deadline, seen, sleeps, wfrRet>>
    /\ UNCHANGED <<ecPc, receipt, confirmations, heads, ecSleeps, ecRet>>
    /\ UNCHANGED <<nonceVars, cfgVars, srvVars, bcVars, bootVars, rawVars, gasVars, histVars>>

\* line 25 is over, x seconds late, and line 18 awaits the next query
WfrWake(x) ==
    /\ wfrPc = "sleep"
    /\ now' = now + pollSec + x
    /\ wfrPc' = "query"
    /\ UNCHANGED <<timeoutSec, pollSec, deadline, seen, sleeps, wfrRet>>
    /\ UNCHANGED <<ecPc, receipt, confirmations, heads, ecSleeps, ecRet>>
    /\ UNCHANGED <<nonceVars, cfgVars, srvVars, bcVars, bootVars, rawVars, gasVars, histVars>>

\* receipt.get("blockNumber")
BlockNumberOf(r) == IF "blockNumber" \in DOMAIN r THEN r.blockNumber ELSE NoInt

\* variant: the head is queried once even for a receipt without a block number
EnsureConfirmationsAlwaysQueries(r, n) ==
    /\ ecPc = "idle"
    /\ receipt' = r
    /\ confirmations' = n
    /\ ecPc' = "query"
    /\ UNCHANGED ecRet
    /\ UNCHANGED <<heads, ecSleeps>>
    /\ UNCHANGED <<wfrPc, now, timeoutSec, pollSec, deadline, seen, sleeps, wfrRet>>
    /\ UNCHANGED <<nonceVars, cfgVars, srvVars, bcVars, bootVars, rawVars, gasVars, histVars>>

\* ensure_confirmations lines 31-35: the receipt is returned at once when it has no
\* block number, else the first head query is awaited
ensure_confirmations(r, n) ==
    /\ ecPc = "idle"
    /\ receipt' = r
    /\ confirmations' = n
    /\ IF BlockNumberOf(r) = NoInt
       THEN /\ ecPc' = "returned"
            /\ ecRet' = r
       ELSE /\ ecPc' = "query"
            /\ UNCHANGED ecRet
    /\ UNCHANGED <<heads, ecSleeps>>
    /\ UNCHANGED <<wfrPc, now, timeoutSec, pollSec, deadline, seen, sleeps, wfrRet>>
    /\ UNCHANGED <<nonceVars, cfgVars, srvVars, bcVars, bootVars, rawVars, gasVars, histVars>>

\* variant: the depth is counted without the block of the transaction itself
EcHeadDepthOffByOne(h) ==
    /\ ecPc = "query"
    /\ heads' = Append(heads, h)
    /\ IF h - BlockNumberOf(receipt) >= confirmations
       THEN /\ ecPc' = "returned"
            /\ ecRet' = receipt
            /\ UNCHANGED ecSleeps
       ELSE /\ ecPc' = "sleep"
            /\ ecSleeps' = ecSleeps + 1
            /\ UNCHANGED ecRet
    /\ UNCHANGED <<receipt, confirmations>>
    /\ UNCHANGED <<wfrPc, now, timeoutSec, pollSec, deadline, seen, sleeps, wfrRet>>
    /\ UNCHANGED <<nonceVars, cfgVars, srvVars, bcVars, bootVars, rawVars, gasVars, histVars>>

\* lines 35-38: the head query returns h
EcHead(h) ==
    /\ ecPc = "query"
    /\ heads' = Append(heads, h)
    /\ IF h - BlockNumberOf(receipt) + 1 >= confirmations
       THEN /\ ecPc' = "returned"
            /\ ecRet' = receipt
            /\ UNCHANGED ecSleeps
       ELSE /\ ecPc' = "sleep"
            /\ ecSleeps' = ecSleeps + 1
            /\ UNCHANGED ecRet
    /\ UNCHANGED <<receipt, confirmations>>
    /\ UNCHANGED <<wfrPc, now, timeoutSec, pollSec, deadline, seen, sleeps, wfrRet>>
    /\ UNCHANGED <<nonceVars, cfgVars, srvVars, bcVars, bootVars, rawVars, gasVars, histVars>>

\* variant: the exception of the head query is passed over and the query made again
\* after the sleep
EcHeadFailRetried ==
    /\ ecPc = "query"
    /\ ecPc' = "sleep"
    /\ ecSleeps' = ecSleeps + 1
    /\ UNCHANGED <<receipt, confirmations, heads, ecRet>>
    /\ UNCHANGED <<wfrPc, now, timeoutSec, pollSec, deadline, seen, sleeps, wfrRet>>
    /\ UNCHANGED <<nonceVars, cfgVars, srvVars, bcVars, bootVars, rawVars, gasVars, histVars>>

\* line 35 is in no try block: the exception of the head query leaves the function
EcHeadFail ==
    /\ ecPc = "query"
    /\ ecPc' = "raised"
    /\ UNCHANGED <<receipt, confirmations, heads, ecSleeps, ecRet>>
    /\ UNCHANGED <<wfrPc, now, timeoutSec, pollSec, deadline, seen, sleeps, wfrRet>>
    /\ UNCHANGED <<nonceVars, cfgVars, srvVars, bcVars, bootVars, rawVars, gasVars, histVars>>

\* line 38 is over and line 35 awaits the next head query
EcWake ==
    /\ ecPc = "sleep"
    /\ Len(heads) < MaxHeadQueries
    /\ ecPc' = "query"
    /\ UNCHANGED <<receipt, confirmations, heads, ecSleeps, ecRet>>
    /\ UNCHANGED <<wfrPc, now, timeoutSec, pollSec, deadline, seen, sleeps, wfrRet>>
    /\ UNCHANGED <<nonceVars, cfgVars, srvVars, bcVars, bootVars, rawVars, gasVars, histVars>>

\* no call of the tracker has been made
InitTracker ==
    /\ wfrPc = "idle"
    /\ now = 0
    /\ timeoutSec = 0
    /\ pollSec = 0
    /\ deadline = 0
    /\ seen = <<>>
    /\ sleeps = 0
    /\ wfrRet = NoReceipt
    /\ ecPc = "idle"
    /\ receipt = NoReceipt
    /\ confirmations = 0
    /\ heads = <<>>
    /\ ecSleeps = 0
    /\ ecRet = NoReceipt

\* ------------------------------------------------------ GasStrategy (gas.py)

\* the calls of apply on one GasStrategy
ApplyCalls == 1..NApplyCalls

\* variant: the network price is queried whatever the configuration
applyAlwaysQueries(k) ==
    /\ gasPc[k] = "idle"
    /\ gasPc' = [gasPc EXCEPT ![k] = "query"]
    /\ gasQueries' = [gasQueries EXCEPT ![k] = @ + 1]
    /\ UNCHANGED gasRet
    /\ UNCHANGED <<legacy_gwei, priority_gwei, max_multiplier, gasBase>>
    /\ UNCHANGED <<nonceVars, cfgVars, srvVars, bcVars, bootVars, rawVars, trkVars, histVars>>

\* apply lines 16-18: the legacy price is returned with no await, else gas_price is awaited
apply(k) ==
    /\ gasPc[k] = "idle"
    /\ IF legacy_gwei # NoGwei
       THEN /\ gasPc' = [gasPc EXCEPT ![k] = "returned"]
            /\ gasRet' = [gasRet EXCEPT ![k] = LegacyFees(legacy_gwei)]
            /\ UNCHANGED gasQueries
       ELSE /\ gasPc' = [gasPc EXCEPT ![k] = "query"]
            /\ gasQueries' = [gasQueries EXCEPT ![k] = @ + 1]
            /\ UNCHANGED gasRet
    /\ UNCHANGED <<legacy_gwei, priority_gwei, max_multiplier, gasBase>>
    /\ UNCHANGED <<nonceVars, cfgVars, srvVars, bcVars, bootVars, rawVars, trkVars, histVars>>

\* variant: the strategy keeps the first price it saw and never raises its fee above it
ApplyGasPriceKept(k, base) ==
    /\ gasPc[k] = "query"
    /\ gasBase' = [gasBase EXCEPT ![k] = base]
    /\ gasRet' = [gasRet EXCEPT ![k] =
          LET first == {j \in ApplyCalls : gasPc[j] = "returned"}
              b == IF first = {} THEN base ELSE gasBase[CHOOSE j \in first : TRUE]
          IN Eip1559Fees(b, max_multiplier, priority_gwei)]
    /\ gasPc' = [gasPc EXCEPT ![k] = "returned"]
    /\ UNCHANGED <<legacy_gwei, priority_gwei, max_multiplier, gasQueries>>
    /\ UNCHANGED <<nonceVars, cfgVars, srvVars, bcVars, bootVars, rawVars, trkVars, histVars>>

\* lines 18-21: gas_price returns base and the two EIP-1559 fields are returned
ApplyGasPriceOk(k, base) ==
    /\ gasPc[k] = "query"
    /\ gasBase' = [gasBase EXCEPT ![k] = base]
    /\ gasRet' = [gasRet EXCEPT ![k] = Eip1559Fees(base, max_multiplier, priority_gwei)]
    /\ gasPc' = [gasPc EXCEPT ![k] = "returned"]
    /\ UNCHANGED <<legacy_gwei, priority_gwei, max_multiplier, gasQueries>>
    /\ UNCHANGED <<nonceVars, cfgVars, srvVars, bcVars, bootVars, rawVars, trkVars, histVars>>

\* line 18 raises: apply returns nothing
ApplyGasPriceFail(k) ==
    /\ gasPc[k] = "query"
    /\ gasPc' = [gasPc EXCEPT ![k] = "raised"]
    /\ UNCHANGED <<legacy_gwei, priority_gwei, max_multiplier, gasBase, gasQueries, gasRet>>
    /\ UNCHANGED <<nonceVars, cfgVars, srvVars, bcVars, bootVars, rawVars, trkVars, histVars>>

\* no call of apply has been made
InitCalls ==
    /\ gasPc = [k \in ApplyCalls |-> "idle"]
    /\ gasBase = [k \in ApplyCalls |-> NoInt]
    /\ gasQueries = [k \in ApplyCalls |-> 0]
    /\ gasRet = [k \in ApplyCalls \cup Conns |-> NoFees]

\* GasStrategy(): the defaults of the dataclass (lines 11-13)
InitGas ==
    /\ legacy_gwei = NoGwei
    /\ priority_gwei = [mant |-> 1, exp |-> 0]
    /\ max_multiplier = [num |-> 6, den |-> 5]
    /\ InitCalls

\* ------------------------------------------ ScepticConfig.from_env (config.py)

\* an environment variable: unset, or set to a text
Unset == [set |-> FALSE]
SetTo(t) == [set |-> TRUE, text |-> t]

\* os.environ.get(name, default)
Get(v, default) == IF v.set THEN v.text ELSE default

\* a text of digits, blanks and letters, as the sequence of its characters
Digits == {"0", "1", "2", "3", "4", "5", "6", "7", "8", "9"}
DigitValue(ch) ==
    CASE ch = "0" -> 0 [] ch = "1" -> 1 [] ch = "2" -> 2 [] ch = "3" -> 3 [] ch = "4" -> 4
      [] ch = "5" -> 5 [] ch = "6" -> 6 [] ch = "7" -> 7 [] ch = "8" -> 8 [] ch = "9" -> 9

\* t without the blanks at its ends
RECURSIVE Stripped(_)
Stripped(t) ==
    IF t = <<>> THEN t
    ELSE IF Head(t) = " " THEN Stripped(Tail(t))
    ELSE IF t[Len(t)] = " " THEN Stripped(SubSeq(t, 1, Len(t) - 1))
    ELSE t

\* the number a text of digits writes in base ten
RECURSIVE Decimal(_)
Decimal(t) == IF t = <<>> THEN 0 ELSE 10 * Decimal(SubSeq(t, 1, Len(t) - 1)) + DigitValue(t[Len(t)])

\* int(t): the blanks around are ignored; NoInt stands for ValueError
int(t) ==
    LET u == Stripped(t) IN
    IF u = <<>> \/ \E i \in 1..Len(u) : u[i] \notin Digits THEN NoInt ELSE Decimal(u)

\* None, for a URL
NoUrl == "<None>"

\* network.py lines 17-52: the profile of a chain id, with its default endpoints
get_chain_profile(chain_id) ==
    CASE chain_id = 1116 -> [chain_id |-> 1116, rpc_http_default |-> NoUrl, rpc_ws_default |-> NoUrl]
      [] chain_id = 1114 -> [chain_id |-> 1114, rpc_http_default |-> "https://rpc.test2.btcs.network",
                             rpc_ws_default |-> "wss://rpc.test2.btcs.network/wsp"]
      [] chain_id = 1115 -> [chain_id |-> 1115, rpc_http_default |-> NoUrl, rpc_ws_default |-> NoUrl]
      [] OTHER -> [chain_id |-> chain_id, rpc_http_default |-> NoUrl, rpc_ws_default |-> NoUrl]

\* the values of a name not bound yet, and of a call that raised ValueError
NoConfig == [none |-> TRUE]
RaisedValueError == [error |-> "ValueError"]

\* variant: the default of the chain profile, when there is one, replaces the URL of
\* the environment
FilledProfileFirst(cid, http, ws) ==
    LET prof == get_chain_profile(cid)
    IN [rpc_http_url |-> IF prof.rpc_http_default # NoUrl THEN prof.rpc_http_default ELSE http,
        rpc_ws_url |-> IF ws \in {NoUrl, ""} /\ prof.rpc_ws_default # NoUrl
                       THEN prof.rpc_ws_default ELSE ws,
        chain_id |-> cid]

\* config.py lines 62-72: the endpoints and the chain id of the ScepticConfig built
\* from chain id cid and the values http and ws of the environment
Filled(cid, http, ws) ==
    LET prof == get_chain_profile(cid)
        fill == http = ""
    IN [rpc_http_url |-> IF fill /\ prof.rpc_http_default # NoUrl THEN prof.rpc_http_default ELSE http,
        rpc_ws_url |-> IF fill /\ ws \in {NoUrl, ""} /\ prof.rpc_ws_default # NoUrl
                       THEN prof.rpc_ws_default ELSE ws,
        chain_id |-> cid]

\* the text "1116", the default of SCEPTIC_CHAIN_ID
DefaultChainText == <<"1", "1", "1", "6">>

\* ScepticConfig.from_env, lines 59-72; the other variables are unset
from_env ==
    LET chain_id == int(Get(env.SCEPTIC_CHAIN_ID, DefaultChainText))
        rpc_http == Get(env.SCEPTIC_RPC_HTTP_URL, "")
        rpc_ws == Get(env.SCEPTIC_RPC_WS_URL, NoUrl)
    IN /\ envCfg = NoConfig
       /\ envCfg' = IF chain_id = NoInt THEN RaisedValueError
                     ELSE Filled(chain_id, rpc_http, rpc_ws)
       /\ UNCHANGED <<env, cfgChainId, reported, probes>>
       /\ UNCHANGED <<nonceVars, cfgVars, srvVars, bcVars, rawVars, trkVars, gasVars, histVars>>

\* an environment with none of the variables set, and no call of from_env
NoEnv == [SCEPTIC_CHAIN_ID |-> Unset, SCEPTIC_RPC_HTTP_URL |-> Unset, SCEPTIC_RPC_WS_URL |-> Unset]

InitEnvironment ==
    /\ env = NoEnv
    /\ envCfg = NoConfig

\* ----------------------------------------- startup (build_default_server)

\* the chain ids of the configuration and of the upstream node
ChainIds == {1114, 1116}

\* the allow-list of rpc.call by default (config.py lines 43-52)
DefaultRpcAllow ==
    {"eth_blockNumber", "eth_getTransactionByHash", "eth_getBalance", "eth_getBlockByNumber",
     "eth_getBlockByHash", "eth_call"}

\* stop_after_attempt(3) of ensure_web3_ready
ProbeAttempts == 3

\* ensure_web3_ready (providers.py lines 43-48): the probe of the node succeeds and
\* build_default_server awaits the chain id
BuildProbeOk ==
    /\ srvpc = "probe"
    /\ srvpc' = "chain_id"
    /\ UNCHANGED <<bpc, lastBlock, tickHead, curBlock, snap, idx, dead, notes, tickFrom,
                   tickDone, steady, tickSent, failedSince, pollFails>>
    /\ UNCHANGED <<nonceVars, cfgVars, srvVars, cfgChainId, reported, probes, envVars,
                   rawVars, trkVars, gasVars, histVars>>

\* the probe fails: it is tried again, and the third failure ends build_default_server
BuildProbeFail ==
    /\ srvpc = "probe"
    /\ probes' = probes + 1
    /\ srvpc' = IF probes + 1 >= ProbeAttempts THEN "failed" ELSE "probe"
    /\ UNCHANGED <<bpc, lastBlock, tickHead, curBlock, snap, idx, dead, notes, tickFrom,
                   tickDone, steady, tickSent, failedSince, pollFails>>
    /\ UNCHANGED <<nonceVars, cfgVars, srvVars, cfgChainId, reported, envVars,
                   rawVars, trkVars, gasVars, histVars>>

\* variant: the chain id of the node is read and not compared
ChainIdNoCheck(cid) ==
    /\ srvpc = "chain_id"
    /\ reported' = cid
    /\ srvpc' = "starting"
    /\ handlers' = DefaultHandlers
    /\ UNCHANGED <<bpc, lastBlock, tickHead, curBlock, snap, idx, dead, notes, tickFrom,
                   tickDone, steady, tickSent, failedSince, pollFails>>
    /\ UNCHANGED <<nonceVars, cfgToken, cfgEnabled, cfgKey, srvVars, cfgChainId, probes, envVars,
                   rawVars, trkVars, gasVars, histVars>>

\* assert_chain_id (validation.py lines 6-9) gets cid from the node: ValueError leaves
\* build_default_server on a mismatch; else lines 152-283 register the methods and
\* return the server, and start() (cli.py line 25) awaits ws_serve
assert_chain_id(cid) ==
    /\ srvpc = "chain_id"
    /\ reported' = cid
    /\ IF cid # cfgChainId
       THEN /\ srvpc' = "failed"
            /\ UNCHANGED handlers
       ELSE /\ srvpc' = "starting"
            /\ handlers' = DefaultHandlers
    /\ UNCHANGED <<bpc, lastBlock, tickHead, curBlock, snap, idx, dead, notes, tickFrom,
                   tickDone, steady, tickSent, failedSince, pollFails>>
    /\ UNCHANGED <<nonceVars, cfgToken, cfgEnabled, cfgKey, srvVars, cfgChainId, probes, envVars,
                   rawVars, trkVars, gasVars, histVars>>

\* the chain id query raises and build_default_server ends with its exception
ChainIdFail ==
    /\ srvpc = "chain_id"
    /\ srvpc' = "failed"
    /\ UNCHANGED <<bpc, lastBlock, tickHead, curBlock, snap, idx, dead, notes, tickFrom,
                   tickDone, steady, tickSent, failedSince, pollFails>>
    /\ UNCHANGED <<nonceVars, cfgVars, srvVars, cfgChainId, reported, probes, envVars,
                   rawVars, trkVars, gasVars, histVars>>

\* start() lines 134-139: the socket listens, the broadcaster task is created and
\* start() awaits a future that never completes
StartListening ==
    /\ srvpc = "starting"
    /\ srvpc' = "serving"
    /\ bpc' = "init"
    /\ UNCHANGED <<lastBlock, tickHead, curBlock, snap, idx, dead, notes, tickFrom,
                   tickDone, steady, tickSent, failedSince, pollFails>>
    /\ UNCHANGED <<nonceVars, cfgVars, srvVars, cfgChainId, reported, probes, envVars,
                   rawVars, trkVars, gasVars, histVars>>

\* a gateway that was built and started, as the connection specifications take it
InitStarted ==
    /\ InitEnvironment
    /\ cfgChainId = 1116
    /\ reported = 1116
    /\ probes = 0
    /\ cfgRpcAllow = DefaultRpcAllow

\* everything beside the connections, the nonce manager and the broadcaster, at rest
InitLibrary ==
    /\ InitStarted
    /\ InitTracker
    /\ InitGas

\* RpcServer.__init__: no connection yet, no subscriber
InitServer ==
    /\ conn = [c \in Conns |-> "new"]
    /\ closeCode = [c \in Conns |-> 0]
    /\ wire = [c \in Conns |-> "up"]
    /\ bearer = [c \in Conns |-> FALSE]
    /\ reqCount = [c \in Conns |-> 0]
    /\ reqLog = [c \in Conns |-> <<>>]
    /\ cur = [c \in Conns |-> NoReq]
    /\ pend = [c \in Conns |-> NoResp]
    /\ out = [c \in Conns |-> <<>>]
    /\ invoked = {}
    /\ subscribers = {}
    /\ txNonce = [c \in Conns |-> NoInt]
    /\ submitted = {}
    /\ exc = [c \in Conns |-> ""]

\* NonceManager.__init__: empty _nonces and _locks
InitManager ==
    /\ resetAddr = NoAddr
    /\ pc = [t \in Tasks |-> "idle"]
    /\ gnAddr = [t \in Tasks |-> NoAddr]
    /\ gnRet = [t \in Tasks |-> NoInt]
    /\ locks = <<>>
    /\ nonces = <<>>
    /\ okQueries = [k \in Keys |-> 0]
    /\ resetCalls = [k \in Keys |-> 0]
    /\ firstCount = [k \in Keys |-> NoInt]
    /\ freshReset = [k \in Keys |-> FALSE]
    /\ afterReset = [t \in Tasks |-> FALSE]
    /\ queried = [t \in Tasks |-> NoInt]
    /\ heldAtStart = [t \in Tasks |-> {}]

\* RpcServer.__init__ line 40 (_last_block = None), nothing broadcast yet
InitBroadcastState ==
    /\ lastBlock = NoInt
    /\ tickHead = NoInt
    /\ curBlock = NoInt
    /\ snap = <<>>
    /\ idx = 0
    /\ dead = {}
    /\ notes = [c \in Conns |-> <<>>]
    /\ tickFrom = NoInt
    /\ tickDone = FALSE
    /\ steady = {}
    /\ tickSent = [c \in Conns |-> <<>>]
    /\ failedSince = {}
    /\ pollFails = 0

\* the broadcaster as constructed, unobserved
InitBroadcast ==
    /\ InitBroadcastState
    /\ obs = NoObs

\* RpcServer.start has created the broadcaster task, which awaits its first head
\* query (line 76); _last_block is None
InitBroadcaster ==
    /\ srvpc = "serving"
    /\ bpc = "init"
    /\ InitBroadcast


\* the messages clients send to the gateway
Methods == {"health", "events.subscribe", "events.unsubscribe", "nope", Unhashable}
Messages ==
    {[kind |-> "unparsable", method |-> NoMethod, id |-> NoId]}
        \cup {[kind |-> "request", method |-> m, id |-> 7] : m \in Methods}

\* the configurations the gateway is started with
Configs ==
    {[token |-> NoToken, enabled |-> {"*"}, handlers |-> DefaultHandlers]}
        \cup {[token |-> NoToken, enabled |-> e, handlers |-> DefaultHandlers \cup EventHandlers] :
                  e \in EnableLists}
        \cup {[token |-> "s3cret", enabled |-> {"*"}, handlers |-> DefaultHandlers \cup EventHandlers]}

\* the gateway: any configuration, connections sending any message
Init ==
    /\ InitManager
    /\ InitServer
    /\ InitBroadcaster
    /\ InitLibrary
    /\ \E cf \in Configs :
          /\ cfgToken = cf.token
          /\ cfgEnabled = cf.enabled
          /\ handlers = cf.handlers
    /\ cfgKey = FALSE

Next ==
    \/ \E c \in Conns, h \in Handshakes : Connect(c, h)
    \/ \E c \in Conns : PeerClose(c)
    \/ \E c \in Conns, m \in Messages : Read(c, m)
    \/ \E c \in Conns : RecvClosed(c)
    \/ \E c \in Conns : Send(c)
    \/ \E c \in Conns : SendFail(c)
    \/ \E c \in Conns : HandlerReturn(c)
    \/ \E c \in Conns, e \in HandlerErrors : HandlerRaise(c, e)

Spec == Init /\ [][Next]_vars

\* write requests on the default server: no token, every method enabled
WriteMessages == {[kind |-> "request", method |-> m, id |-> 7] : m \in WriteMethods}

\* build_default_server, with or without a private key
InitWrite ==
    /\ InitManager
    /\ InitServer
    /\ InitBroadcaster
    /\ InitLibrary
    /\ cfgToken = NoToken
    /\ cfgEnabled = {"*"}
    /\ handlers = DefaultHandlers
    /\ cfgKey \in BOOLEAN

NextWrite ==
    \/ \E c \in Conns, h \in Handshakes : Connect(c, h)
    \/ \E c \in Conns, m \in WriteMessages : Read(c, m)
    \/ \E c \in Conns : Send(c)
    \/ \E c \in Conns : HandlerRaise(c, "upstream error")
    \/ \E c \in Conns : GasPriceOk(c)
    \/ \E c \in Conns, n \in ChainCounts : TxCountOk(c, n)
    \/ \E c \in Conns : SubmitOk(c)
    \/ \E c \in Conns : GetNextResume(c)
    \/ \E c \in Conns, n \in ChainCounts : GetNextQueryOk(c, n)
    \/ \E c \in Conns : GetNextQueryFail(c)

SpecWrite == InitWrite /\ [][NextWrite]_vars

\* a server that accepts the event methods, and its broadcaster. A failing head query
\* of a tick changes nothing but the count of failures: it and the shutdown are in
\* SpecTicks.
EventMessages ==
    {[kind |-> "request", method |-> m, id |-> 7] :
        m \in {"events.subscribe", "events.unsubscribe", "health"}}

EventEnableLists == {{"*"}, {"events.subscribe"}}

InitEvents ==
    /\ InitManager
    /\ InitServer
    /\ InitBroadcaster
    /\ InitLibrary
    /\ cfgToken = NoToken
    /\ cfgEnabled \in EventEnableLists
    /\ handlers = DefaultHandlers \cup EventHandlers
    /\ cfgKey = FALSE

NextEvents ==
    \/ \E c \in Conns, h \in Handshakes : Connect(c, h)
    \/ \E c \in Conns : PeerClose(c)
    \/ \E c \in Conns, m \in EventMessages : Read(c, m)
    \/ \E c \in Conns : RecvClosed(c)
    \/ \E c \in Conns : Send(c)
    \/ \E c \in Conns : SendFail(c)
    \/ \E c \in Conns : HandlerReturn(c)
    \/ \E h \in Heads : BcInitOk(h)
    \/ BcInitFail
    \/ \E h \in Heads : BcPollOk(h)
    \/ BcWake
    \/ BcSendOk
    \/ BcSendFail

SpecEvents == InitEvents /\ [][NextEvents]_vars

\* the life of the broadcaster, from its creation by start() to the shutdown, with
\* failing head queries, on a server whose connections subscribe and close
TickMessages == {[kind |-> "request", method |-> "events.subscribe", id |-> 7]}

InitTicks ==
    /\ InitManager
    /\ InitServer
    /\ InitBroadcaster
    /\ InitLibrary
    /\ cfgToken = NoToken
    /\ cfgEnabled = {"*"}
    /\ handlers = DefaultHandlers \cup EventHandlers
    /\ cfgKey = FALSE

NextTicks ==
    \/ \E c \in Conns, h \in Handshakes : Connect(c, h)
    \/ \E c \in Conns : PeerClose(c)
    \/ \E c \in Conns, m \in TickMessages : Read(c, m)
    \/ \E c \in Conns : RecvClosed(c)
    \/ \E c \in Conns : Send(c)
    \/ \E c \in Conns : SendFail(c)
    \/ \E h \in Heads : BcInitOk(h)
    \/ BcInitFail
    \/ \E h \in Heads : BcPollOk(h)
    \/ BcPollFail
    \/ BcWake
    \/ BcSendOk
    \/ BcSendFail
    \/ StartShutdown
    \/ BcCancelled
    \/ StartFinish

SpecTicks == InitTicks /\ [][NextTicks]_vars

\* the broadcaster of a serving gateway whose connections subscribe, with an observer
\* of its head queries
InitHeads ==
    /\ InitManager
    /\ InitServer
    /\ srvpc = "serving"
    /\ bpc = "init"
    /\ InitBroadcastState
    /\ obs = Observing
    /\ InitStarted
    /\ InitTracker
    /\ InitGas
    /\ cfgToken = NoToken
    /\ cfgEnabled = {"*"}
    /\ handlers = DefaultHandlers \cup EventHandlers
    /\ cfgKey = FALSE

NextHeads ==
    \/ \E c \in Conns, h \in Handshakes : Connect(c, h)
    \/ \E c \in Conns : PeerClose(c)
    \/ \E c \in Conns, m \in TickMessages : Read(c, m)
    \/ \E c \in Conns : RecvClosed(c)
    \/ \E c \in Conns : Send(c)
    \/ \E c \in Conns : SendFail(c)
    \/ \E h \in Heads : BcInitOk(h)
    \/ BcInitFail
    \/ \E h \in Heads : BcPollOk(h)
    \/ BcPollFail
    \/ BcWake
    \/ BcSendOk
    \/ BcSendFail

SpecHeads == InitHeads /\ [][NextHeads]_vars

\* a step of the broadcaster task: an await of it (head query, send, sleep) is over,
\* or the cancellation reaches it
BcStep ==
    \/ \E h \in Heads : BcInitOk(h)
    \/ BcInitFail
    \/ \E h \in Heads : BcPollOk(h)
    \/ BcPollFail
    \/ BcWake
    \/ BcSendOk
    \/ BcSendFail
    \/ BcCancelled

\* the event loop resumes the broadcaster whenever an await of it can complete; the
\* connections, the node and the shutdown are under no obligation
SpecTicksFair == InitTicks /\ [][NextTicks]_vars /\ WF_vars(BcStep)

\* texts of SCEPTIC_CHAIN_ID with the integer each one writes (NoInt: none): the ids
\* of the three profiles, an id with no profile, blanks around, a leading zero, the
\* empty text, a letter
EnvChainIds ==
    {[text |-> <<"1", "1", "1", "6">>, value |-> 1116],
     [text |-> <<"1", "1", "1", "4">>, value |-> 1114],
     [text |-> <<"1", "1", "1", "5">>, value |-> 1115],
     [text |-> <<"5", "6">>, value |-> 56],
     [text |-> <<" ", "1", "1", "1", "4", " ">>, value |-> 1114],
     [text |-> <<"0", "5">>, value |-> 5],
     [text |-> <<>>, value |-> NoInt],
     [text |-> <<"1", "x">>, value |-> NoInt]}

\* values of SCEPTIC_RPC_HTTP_URL and SCEPTIC_RPC_WS_URL
EnvHttpUrls == {Unset, SetTo(""), SetTo("http://localhost:8545"), SetTo("http://node:8545")}
EnvWsUrls == {Unset, SetTo(""), SetTo("ws://localhost:8546")}

\* one call of from_env in any environment
InitEnv ==
    /\ InitManager
    /\ InitServer
    /\ InitBroadcaster
    /\ cfgToken = NoToken
    /\ cfgEnabled = {"*"}
    /\ handlers = DefaultHandlers
    /\ cfgKey = FALSE
    /\ cfgChainId = 1116
    /\ reported = 1116
    /\ probes = 0
    /\ cfgRpcAllow = DefaultRpcAllow
    /\ InitTracker
    /\ InitGas
    /\ \E c \in {Unset} \cup {SetTo(e.text) : e \in EnvChainIds},
          h \in EnvHttpUrls, w \in EnvWsUrls :
          env = [SCEPTIC_CHAIN_ID |-> c, SCEPTIC_RPC_HTTP_URL |-> h, SCEPTIC_RPC_WS_URL |-> w]
    /\ envCfg = NoConfig

NextEnv == from_env

SpecEnv == InitEnv /\ [][NextEnv]_vars

\* a NonceManager used directly by concurrent callers
InitNonce ==
    /\ InitManager
    /\ InitServer
    /\ InitBroadcaster
    /\ InitLibrary
    /\ cfgToken = NoToken
    /\ cfgEnabled = {"*"}
    /\ handlers = DefaultHandlers
    /\ cfgKey = FALSE

NextNonce ==
    \/ \E t \in Callers, a \in Spellings : GetNext(t, a)
    \/ \E t \in Callers : GetNextResume(t)
    \/ \E t \in Callers, c \in ChainCounts : GetNextQueryOk(t, c)
    \/ \E t \in Callers : GetNextQueryFail(t)
    \/ \E a \in Spellings : Reset(a)

SpecNonce == InitNonce /\ [][NextNonce]_vars

\* get_next calls alone, with no reset
NextCalls ==
    \/ \E t \in Callers, a \in Spellings : GetNext(t, a)
    \/ \E t \in Callers : GetNextResume(t)
    \/ \E t \in Callers, c \in ChainCounts : GetNextQueryOk(t, c)
    \/ \E t \in Callers : GetNextQueryFail(t)

\* a step of a get_next call for address 0xCd: the event loop resumes a ready
\* coroutine, and the node answers (or fails) a pending query
FarStep(t) ==
    /\ Key(gnAddr[t]) = "0xCd"
    /\ (GetNextResume(t) \/ (\E c \in ChainCounts : GetNextQueryOk(t, c)) \/ GetNextQueryFail(t))

\* calls for 0xCd are scheduled fairly; the query of a call for 0xAb may stay pending for ever
SpecNonceFair == InitNonce /\ [][NextCalls]_vars /\ \A t \in Callers : WF_vars(FarStep(t))

\* a started gateway with nothing going on, beside which the library is exercised
InitQuiet ==
    /\ InitManager
    /\ InitServer
    /\ InitBroadcaster
    /\ cfgToken = NoToken
    /\ cfgEnabled = {"*"}
    /\ handlers = DefaultHandlers
    /\ cfgKey = FALSE
    /\ InitStarted

\* one call of wait_for_receipt, with any timeout and poll interval
InitReceipt ==
    /\ InitQuiet
    /\ InitTracker
    /\ InitGas

NextReceipt ==
    \/ \E t \in Timeouts, p \in PollIntervals : wait_for_receipt(t, p)
    \/ \E r \in Receipts, d \in Delays : WfrReceipt(r, d)
    \/ \E d \in Delays : WfrNone(d)
    \/ \E d \in Delays : WfrFail(d)
    \/ \E x \in Delays : WfrWake(x)

SpecReceipt == InitReceipt /\ [][NextReceipt]_vars

\* one call of ensure_confirmations, with any receipt and depth
InitConfirm ==
    /\ InitQuiet
    /\ InitTracker
    /\ InitGas

NextConfirm ==
    \/ \E r \in Receipts, n \in 1..MaxConfirmations : ensure_confirmations(r, n)
    \/ \E h \in Heads : EcHead(h)
    \/ EcHeadFail
    \/ EcWake

SpecConfirm == InitConfirm /\ [][NextConfirm]_vars

\* the flow of examples/flows: the receipt wait_for_receipt returned is passed to
\* ensure_confirmations
TrackConfirm(n) ==
    /\ wfrPc = "returned"
    /\ ensure_confirmations(wfrRet, n)

NextTrack ==
    \/ \E t \in Timeouts, p \in PollIntervals : wait_for_receipt(t, p)
    \/ \E r \in Receipts, d \in Delays : WfrReceipt(r, d)
    \/ \E d \in Delays : WfrNone(d)
    \/ \E d \in Delays : WfrFail(d)
    \/ \E x \in Delays : WfrWake(x)
    \/ \E n \in 1..MaxConfirmations : TrackConfirm(n)
    \/ \E h \in Heads : EcHead(h)
    \/ EcHeadFail
    \/ EcWake

\* a transaction is tracked: wait_for_receipt, then ensure_confirmations on its result
SpecTrack == InitReceipt /\ [][NextTrack]_vars

\* calls of apply on one GasStrategy, with any configuration
InitApply ==
    /\ InitQuiet
    /\ InitTracker
    /\ legacy_gwei \in GweiAmounts \cup {NoGwei}
    /\ priority_gwei \in GweiAmounts
    /\ max_multiplier \in Multipliers
    /\ InitCalls

NextApply ==
    \/ \E k \in ApplyCalls : apply(k)
    \/ \E k \in ApplyCalls, b \in GasPrices : ApplyGasPriceOk(k, b)
    \/ \E k \in ApplyCalls : ApplyGasPriceFail(k)

SpecApply == InitApply /\ [][NextApply]_vars

\* the process from `sceptic ws` (cli.py _run_ws) on: build_default_server, start(),
\* then connections asking for health while the broadcaster makes its first query
BootMessages == {[kind |-> "request", method |-> "health", id |-> 7]}

InitBoot ==
    /\ InitManager
    /\ InitServer
    /\ srvpc = "probe"
    /\ bpc = "unborn"
    /\ InitBroadcast
    /\ cfgToken = NoToken
    /\ cfgEnabled = {"*"}
    /\ handlers = {}
    /\ cfgKey = FALSE
    /\ InitEnvironment
    /\ cfgChainId \in ChainIds
    /\ reported = NoInt
    /\ probes = 0
    /\ cfgRpcAllow = DefaultRpcAllow
    /\ InitTracker
    /\ InitGas

NextBoot ==
    \/ BuildProbeOk
    \/ BuildProbeFail
    \/ \E cid \in ChainIds : assert_chain_id(cid)
    \/ ChainIdFail
    \/ StartListening
    \/ \E c \in Conns, h \in Handshakes : Connect(c, h)
    \/ \E c \in Conns, m \in BootMessages : Read(c, m)
    \/ \E c \in Conns : HandlerReturn(c)
    \/ \E c \in Conns : Send(c)
    \/ \E h \in Heads : BcInitOk(h)
    \/ BcInitFail

SpecBoot == InitBoot /\ [][NextBoot]_vars

\* the default server without a signing key: requests that need the key, and health
KeyMethods == WriteMethods \cup {"erc20.permitSign"}

KeylessMessages ==
    {[kind |-> "request", method |-> m, id |-> 7] : m \in KeyMethods \cup {"health"}}

KeylessEnableLists == {{"*"}, {"erc20.transfer", "erc20.permitSign", "health"}}

InitKeyless ==
    /\ InitManager
    /\ InitServer
    /\ InitBroadcaster
    /\ InitLibrary
    /\ cfgToken = NoToken
    /\ cfgEnabled \in KeylessEnableLists
    /\ handlers = DefaultHandlers
    /\ cfgKey = FALSE

NextKeyless ==
    \/ \E c \in Conns, h \in Handshakes : Connect(c, h)
    \/ \E c \in Conns : PeerClose(c)
    \/ \E c \in Conns, m \in KeylessMessages : Read(c, m)
    \/ \E c \in Conns : RecvClosed(c)
    \/ \E c \in Conns : Send(c)
    \/ \E c \in Conns : SendFail(c)
    \/ \E c \in Conns : HandlerReturn(c)
    \/ \E c \in Conns, e \in HandlerErrors : HandlerRaise(c, e)

SpecKeyless == InitKeyless /\ [][NextKeyless]_vars

\* rpc.call requests on the default server, with several allow-lists: the inner method
\* is allowed by default, allowed by no list, or missing
InnerMethods == {"eth_blockNumber", "eth_call", "eth_sendRawTransaction"}

RpcMessages ==
    {[kind |-> "request", method |-> "rpc.call", id |-> 7, inner |-> x] : x \in InnerMethods}
        \cup {[kind |-> "request", method |-> "rpc.call", id |-> 7]}

RpcAllowLists == {DefaultRpcAllow, {"eth_blockNumber"}, {}}

InitRaw ==
    /\ InitManager
    /\ InitServer
    /\ InitBroadcaster
    /\ InitTracker
    /\ InitGas
    /\ cfgChainId = 1116
    /\ reported = 1116
    /\ probes = 0
    /\ InitEnvironment
    /\ cfgRpcAllow \in RpcAllowLists
    /\ cfgToken = NoToken
    /\ cfgEnabled = {"*"}
    /\ handlers = DefaultHandlers
    /\ cfgKey = FALSE

NextRaw ==
    \/ \E c \in Conns, h \in Handshakes : Connect(c, h)
    \/ \E c \in Conns : PeerClose(c)
    \/ \E c \in Conns, m \in RpcMessages : Read(c, m)
    \/ \E c \in Conns : RecvClosed(c)
    \/ \E c \in Conns : Send(c)
    \/ \E c \in Conns : SendFail(c)
    \/ \E c \in Conns : HandlerReturn(c)
    \/ \E c \in Conns, e \in HandlerErrors : HandlerRaise(c, e)

SpecRaw == InitRaw /\ [][NextRaw]_vars

\* ------------------------------------------------------- NonceManager claims

\* task t is inside get_next
InCall(t) == pc[t] \in {"gn_wait", "gn_woken", "gn_query"}
\* the direct callers whose get_next for key k returned
DoneFor(k) == {t \in Callers : pc[t] = "gn_done" /\ Key(gnAddr[t]) = k}

\* C1: with no reset of an address, the values its get_next calls returned are
\* pairwise distinct and are exactly c, c+1, ..., c+N-1, c being the count the
\* chain reported at the first allocation
C1_ContiguousRun ==
    \A k \in Keys : resetCalls[k] = 0 =>
        /\ {gnRet[t] : t \in DoneFor(k)} = firstCount[k]..(firstCount[k] + Cardinality(DoneFor(k)) - 1)
        /\ \A t, u \in DoneFor(k) : t # u => gnRet[t] # gnRet[u]

\* three calls for one address returned, one of them having started while another held the lock
C1_Witness ==
    \E k \in Keys :
        /\ resetCalls[k] = 0
        /\ Cardinality(DoneFor(k)) >= 3
        /\ \E t, u \in DoneFor(k) : u \in heldAtStart[t]

\* C3: a get_next call for 0xCd always completes, although calls for 0xAb may stay
\* suspended inside their critical section for ever
C3_OtherAddressCompletes ==
    \A u \in Callers :
        (InCall(u) /\ Key(gnAddr[u]) = "0xCd") ~> (pc[u] \in {"gn_done", "gn_failed"})

\* a call for 0xCd started and returned while a call for 0xAb was suspended on its query
C3_Witness ==
    \E t, u \in Callers :
        /\ pc[t] = "gn_query" /\ Key(gnAddr[t]) = "0xAb"
        /\ pc[u] = "gn_done" /\ Key(gnAddr[u]) = "0xCd"
        /\ t \in heldAtStart[u]

\* C4: the first get_next call to start after a reset returns the count of a chain
\* query of its own, made after the reset
C4_ResetResyncs ==
    \A t \in Callers :
        (pc[t] = "gn_done" /\ afterReset[t]) => (queried[t] # NoInt /\ gnRet[t] = queried[t])

\* the step on which the count query of a call fails: the cache is untouched and
\* holds nothing for the address, no nonce is handed out, and the lock goes to the
\* head waiter
C5_FailStep ==
    \A t \in Callers :
        (pc[t] = "gn_query" /\ pc'[t] = "gn_failed") =>
            LET k == Key(gnAddr[t]) IN
            /\ nonces' = nonces
            /\ k \notin DOMAIN nonces'
            /\ gnRet'[t] = gnRet[t]
            /\ locks'[LockOf(k)].holder # t
            /\ \A w \in Callers : (pc[w] = "gn_wait" /\ locks[LockOf(k)].waiters # <<>>
                                    /\ Head(locks[LockOf(k)].waiters) = w) => pc'[w] = "gn_woken"

\* C5: when the count query of a call fails the call raises, nothing is cached for
\* the address, no nonce is handed out and the call no longer holds the lock, so
\* the lock passes on and the next call queries again
C5_FailureLeavesNoTrace ==
    /\ [][C5_FailStep]_vars
    /\ [](\A t \in Callers : pc[t] = "gn_failed" => t \notin Holders)

\* a call failed on its query and a later call for the same address queried and succeeded
C5_Witness ==
    \E t, u \in Callers :
        /\ pc[t] = "gn_failed" /\ pc[u] = "gn_done"
        /\ Key(gnAddr[t]) = Key(gnAddr[u])
        /\ resetCalls[Key(gnAddr[t])] = 0
        /\ queried[u] # NoInt

\* C6: the successful count queries for an address number at most 1 + its resets,
\* and exactly one when there was no reset and a call returned
C6_QueryBound ==
    \A k \in Keys :
        /\ okQueries[k] <= 1 + resetCalls[k]
        /\ (resetCalls[k] = 0 /\ DoneFor(k) # {}) => okQueries[k] = 1

\* three calls for one address returned around one reset, on two successful
\* queries: two of the calls shared a query
C6_Witness ==
    \E k \in Keys :
        /\ resetCalls[k] = 1
        /\ okQueries[k] = 2
        /\ Cardinality(DoneFor(k)) = 3

\* ------------------------------------------------------------ gateway claims

\* the nonce a connection's write handler puts in the transaction it is sending
NonceOf(c) == IF pc[c] = "sw_send" THEN gnRet[c] ELSE txNonce[c]

\* C2: two write requests in progress at once on different connections, both at
\* send_raw_transaction, carry different nonces
C2_DistinctNonces ==
    \A c, d \in Conns :
        (c # d /\ pc[c] \in {"tx_send", "sw_send"} /\ pc[d] \in {"tx_send", "sw_send"})
            => NonceOf(c) # NonceOf(d)

\* the connection got past the handshake: it is open, or it was and has ended since
Opened(c) == conn[c] = "open" \/ (conn[c] = "closed" /\ closeCode[c] # 4401)

\* C7: a connection is opened exactly when no token is configured or its handshake
\* carried Bearer <token>; otherwise it is closed with 4401 with no message read,
\* no response sent, no handler called and no subscription
C7_AuthGate ==
    \A c \in Conns : conn[c] # "new" =>
        /\ Opened(c) <=> (cfgToken = NoToken \/ bearer[c])
        /\ ~Opened(c) =>
              /\ conn[c] = "closed" /\ closeCode[c] = 4401
              /\ reqCount[c] = 0 /\ out[c] = <<>> /\ pend[c] = NoResp
              /\ \A k \in 1..MaxMsgs : <<c, k>> \notin invoked
              /\ c \notin subscribers

\* with a token configured, one connection was refused and another, carrying the
\* token, had a request answered
C7_Witness ==
    /\ cfgToken # NoToken
    /\ \E c, d \in Conns :
          /\ conn[c] = "closed" /\ closeCode[c] = 4401 /\ ~bearer[c]
          /\ bearer[d] /\ Len(out[d]) > 0

\* the responses sent for the k-th message of connection c
RespFor(c, k) == {j \in 1..Len(out[c]) : out[c][j].req = k}

\* the k-th message of c has been dealt with and the loop went on
Processed(c, k) == k < reqCount[c] \/ (k = reqCount[c] /\ pc[c] = "recv")

\* C8: a request with a non-null id never gets two responses, every response to it
\* carries its id, and once the loop has gone past it it has got exactly one
C8_OneResponse ==
    \A c \in Conns : \A k \in 1..Len(reqLog[c]) :
        (reqLog[c][k].kind = "request" /\ reqLog[c][k].id # NoId) =>
            /\ Cardinality(RespFor(c, k)) <= 1
            /\ \A j \in RespFor(c, k) : out[c][j].id = reqLog[c][k].id
            /\ Processed(c, k) => Cardinality(RespFor(c, k)) = 1

\* the branch of the dispatcher a response came from
BranchOfResp(r) ==
    CASE r.kind = "result" /\ r.body = "ok" -> "events"
      [] r.kind = "result" -> "success"
      [] r.body = "Method disabled" -> "disabled"
      [] r.body = "Method not found" -> "not_found"
      [] OTHER -> "failure"

\* two connections had two requests answered each, and the four responses came
\* from four different branches of the dispatcher
C8_Witness ==
    \E c, d \in Conns :
        /\ c # d
        /\ Len(out[c]) = 2 /\ Len(out[d]) = 2
        /\ \A j \in 1..2 : out[c][j].id = 7 /\ out[d][j].id = 7
        /\ {BranchOfResp(out[x][j]) : x \in {c, d}, j \in 1..2}
              \in {{"events", "success", "not_found", "failure"},
                   {"events", "success", "disabled", "failure"}}

\* the server itself closes a connection only at the handshake
ServerKeepsOpen(c) == conn[c] = "closed" => (closeCode[c] = 4401 \/ wire[c] = "down")

\* C9: a request naming an unregistered method calls no handler, any response to
\* it is an error of code -32601 ("Method not found" when the allow-list lets the
\* method through), it is answered once processed, and the server does not close
\* the connection
C9_MethodNotFound ==
    \A c \in Conns : \A k \in 1..Len(reqLog[c]) :
        LET m == reqLog[c][k] IN
        (m.kind = "request" /\ m.method # Unhashable /\ m.method \notin handlers) =>
            /\ <<c, k>> \notin invoked
            /\ \A j \in RespFor(c, k) :
                  /\ out[c][j].kind = "error" /\ out[c][j].code = -32601
                  /\ (cfgEnabled = {} \/ "*" \in cfgEnabled \/ m.method \in cfgEnabled)
                        => out[c][j].body = "Method not found"
            /\ Processed(c, k) => RespFor(c, k) # {}
            /\ ServerKeepsOpen(c)

\* an unregistered method was answered "Method not found" and the next request on
\* the same connection was answered with a result
C9_Witness ==
    \E c \in Conns :
        /\ Len(out[c]) = 2
        /\ reqLog[c][1].method = "nope"
        /\ out[c][1].code = -32601 /\ out[c][1].body = "Method not found"
        /\ out[c][2].kind = "result" /\ out[c][2].req = 2
        /\ conn[c] = "open"

\* the handler of c, awaiting, stops without a result
HandlerFails(c) ==
    /\ pc[c] \in AwaitPcs
    /\ pc'[c] \notin AwaitPcs
    /\ pend'[c].kind # "result"

\* the step on which a handler fails: the error response is prepared, nothing is
\* closed and no other connection moves
C10_FailStep ==
    \A c \in Conns : HandlerFails(c) =>
        /\ exc'[c] \in HandlerErrors
        /\ pend'[c] = ErrorResp(reqCount[c], cur[c].id, -32000, exc'[c])
        /\ pc'[c] = "send"
        /\ conn' = conn
        /\ \A d \in Conns \ {c} : pc'[d] = pc[d]

\* the step on which the error response is sent: the loop goes back to reading
C10_SendStep ==
    \A c \in Conns : (pc[c] = "send" /\ pend[c].code = -32000 /\ wire[c] = "up" /\ pc'[c] # "send") =>
        /\ out'[c] = Append(out[c], pend[c])
        /\ pc'[c] = "recv"
        /\ conn'[c] = "open"

\* C10: a failing handler is answered with code -32000 and the failure message,
\* the connection is not closed by the server, no other connection is disturbed,
\* and the loop returns to reading the next message
C10_HandlerFailure ==
    /\ [][C10_FailStep /\ C10_SendStep]_vars
    /\ [](\A c \in Conns : ServerKeepsOpen(c))

\* a handler failure was answered -32000 with its message, and the next request on
\* that connection got a result while the other connection was served too
C10_Witness ==
    \E c, d \in Conns :
        /\ c # d
        /\ Len(out[c]) = 2
        /\ <<c, 1>> \in invoked
        /\ out[c][1].code = -32000 /\ out[c][1].body = "execution reverted"
        /\ out[c][2].kind = "result" /\ out[c][2].body = "result"
        /\ Len(out[d]) > 0

\* ------------------------------------------------- events and broadcaster claims

\* line 102: an allow-list is set, holds no "*" and does not hold the method of m
Gated(m) == m.kind = "request" /\ cfgEnabled # {} /\ "*" \notin cfgEnabled /\ m.method \notin cfgEnabled

\* connection c reads a message on this step
Reads(c) == reqCount'[c] # reqCount[c]

\* C11: a request whose method the allow-list excludes calls no handler, is answered
\* with the error "Method disabled" of code -32601 and nothing else, and reading
\* it leaves the subscriber set as it was, events.subscribe and events.unsubscribe
\* included
C11_MethodDisabled ==
    /\ [](\A c \in Conns : \A k \in 1..Len(reqLog[c]) :
            Gated(reqLog[c][k]) =>
                /\ <<c, k>> \notin invoked
                /\ \A j \in RespFor(c, k) :
                      out[c][j].kind = "error" /\ out[c][j].code = -32601
                          /\ out[c][j].body = "Method disabled"
                /\ Processed(c, k) => RespFor(c, k) # {})
    /\ [][\A c \in Conns :
            (Reads(c) /\ Gated(reqLog'[c][reqCount'[c]])) => subscribers' = subscribers]_vars

\* a subscribed connection asked for events.unsubscribe, which the allow-list
\* excludes: it was answered "Method disabled" and is still subscribed
C11_Witness ==
    \E c \in Conns :
        /\ c \in subscribers
        /\ Len(out[c]) = 2
        /\ reqLog[c][2].method = "events.unsubscribe"
        /\ out[c][2].body = "Method disabled" /\ out[c][2].code = -32601

\* C12: on the server build_default_server returns, with every method enabled,
\* events.subscribe and events.unsubscribe are answered with the result {ok: true},
\* and a connection whose last message was events.subscribe is in the subscriber set
C12_DefaultServerEvents ==
    (handlers = DefaultHandlers /\ "*" \in cfgEnabled) =>
        \A c \in Conns : \A k \in 1..Len(reqLog[c]) :
            (reqLog[c][k].kind = "request" /\ reqLog[c][k].method \in EventHandlers) =>
                /\ \A j \in RespFor(c, k) : out[c][j].kind = "result" /\ out[c][j].body = "ok"
                /\ (k = reqCount[c] /\ conn[c] = "open"
                        /\ reqLog[c][k].method = "events.subscribe") => c \in subscribers

\* the last thing the server did for c was to answer its events.unsubscribe with {ok: true}
UnsubAnswered(c) ==
    /\ out[c] # <<>>
    /\ LET r == out[c][Len(out[c])] IN
         /\ r.kind = "result"
         /\ reqLog[c][r.req].method = "events.unsubscribe"
         /\ reqCount[c] = r.req

\* no events.subscribe of c was ever accepted
NeverSubscribed(c) ==
    \A k \in 1..Len(reqLog[c]) : reqLog[c][k].method # "events.subscribe" \/ Gated(reqLog[c][k])

\* an events.block note is sent to c on this step
Notified(c) == notes'[c] # notes[c]

\* C13: no events.block note is sent to a connection whose events.unsubscribe has been
\* answered {ok: true} and which has not subscribed again, nor to a connection
\* that never subscribed
C13_OnlySubscribed ==
    [][\A c \in Conns : Notified(c) => (~UnsubAnswered(c) /\ ~NeverSubscribed(c))]_vars

\* C14: when a tick that found the head h above _last_block = l has run to its end,
\* _last_block is h and every connection that was subscribed all through the tick,
\* no send to it failing, was sent in this tick exactly the notes l+1, ..., h, in
\* that order
C14_TickNotes ==
    (tickFrom # NoInt /\ tickDone) =>
        /\ lastBlock = tickHead
        /\ \A c \in steady : tickSent[c] = Run(tickFrom + 1, tickHead)

\* a tick over two blocks or more has ended; one connection was subscribed all
\* through it and another one was sent only a part of its notes
C14_Witness ==
    /\ tickFrom # NoInt /\ tickDone
    /\ tickHead >= tickFrom + 2
    /\ \E c, d \in Conns :
          /\ c \in steady /\ Len(tickSent[c]) >= 2
          /\ d \notin steady /\ Len(tickSent[d]) = 1

\* the send of a note to c fails on this step
NoteFails(c) == bpc = "bcast" /\ snap[idx] = c /\ c \notin failedSince /\ c \in failedSince'

\* the broadcast of the current block ends on this step
BlockEnds == bpc = "bcast" /\ (bpc' # "bcast" \/ curBlock' # curBlock)

\* the step on which a send fails: the broadcast goes on with the next subscriber
\* of its copy, or, after the last one, ends with the failing connection out of
\* the subscriber set
C15_FailStep ==
    \A c \in Conns : NoteFails(c) =>
        IF idx < Len(snap)
        THEN /\ bpc' = "bcast" /\ curBlock' = curBlock /\ snap' = snap /\ idx' = idx + 1
             /\ c \in dead'
        ELSE c \notin subscribers'

\* the step on which the broadcast of a block ends: every subscriber of its copy
\* has had its send, and those whose send failed are out of the subscriber set
C15_EndStep ==
    BlockEnds => (srvpc' # "serving" \/ (idx = Len(snap) /\ dead \cap subscribers' = {}))

\* C15: a failed send of a note does not stop the broadcast of the block, the
\* failing connection is out of the subscriber set when that broadcast ends, and
\* no note is sent to it after the failure unless it has subscribed again
C15_DeadSubscriber ==
    /\ [][C15_FailStep /\ C15_EndStep]_vars
    /\ [][\A c \in Conns : Notified(c) => c \notin failedSince]_vars

\* in a broadcast to two subscribers the first send failed and the second one
\* succeeded; the first connection is out of the subscriber set and the tick, of two
\* blocks, has ended without another note for it
C15_Witness ==
    \E c, d \in Conns :
        /\ c \in failedSince /\ c \notin subscribers /\ notes[c] = <<>>
        /\ conn[c] = "open"
        /\ tickDone /\ tickHead >= tickFrom + 2
        /\ Len(notes[d]) >= 2

\* the head query of a tick fails on this step
PollFails == pollFails' > pollFails

\* C16: a failing head query of a tick leaves _last_block and the subscriber set as
\* they were and sends no note; the broadcaster goes to sleep and from there to
\* its next query, and it never ends while the server is serving
C16_FailedQuery ==
    /\ [][PollFails => /\ lastBlock' = lastBlock
                       /\ notes' = notes
                       /\ subscribers' = subscribers
                       /\ bpc' = "sleep"]_vars
    /\ [][(bpc = "sleep" /\ bpc' # "sleep") => bpc' \in {"poll", "stopped"}]_vars
    /\ [](bpc = "stopped" => srvpc # "serving")

\* after two failed head queries in a row the broadcaster awaits its next query,
\* _last_block and the notes sent so far being those of the tick before the failures
C16_Witness ==
    /\ pollFails >= 2
    /\ bpc = "poll"
    /\ srvpc = "serving"
    /\ tickDone /\ lastBlock = tickHead
    /\ \E c \in Conns : notes[c] # <<>>

\* C17: when start() has finished the broadcaster task is over, having been
\* cancelled by start(), and from then on it sends no note and queries no head;
\* the task ends in no other way than through this cancellation
C17_Shutdown ==
    /\ [](srvpc = "finished" => bpc = "stopped")
    /\ [][srvpc = "finished" =>
            /\ notes' = notes
            /\ <<bpc, lastBlock, tickHead, curBlock, snap, idx, pollFails>>'
                  = <<bpc, lastBlock, tickHead, curBlock, snap, idx, pollFails>>]_vars
    /\ [][(bpc # "stopped" /\ bpc' = "stopped") => srvpc = "stopping"]_vars

\* start() has finished after cancelling the broadcaster in the middle of the
\* broadcast of a block, one note of which had been sent
C17_Witness ==
    /\ srvpc = "finished"
    /\ bpc = "stopped"
    /\ Len(snap) = 2 /\ idx = 2
    /\ notes[snap[1]] # <<>>

\* C18: a connection whose handler has ended, by the end of the iteration or by
\* an exception, is not in the subscriber set, whatever the broadcaster and the
\* other connections do afterwards
C18_EndedNotSubscribed ==
    \A c \in Conns : pc[c] = "ended" => c \notin subscribers

\* a connection that had subscribed and been sent a note has ended, while a
\* broadcast that still has it in its copy of the subscriber set goes on, and
\* the other connection is subscribed
C18_Witness ==
    \E c, d \in Conns :
        /\ pc[c] = "ended" /\ conn[c] = "closed" /\ closeCode[c] # 4401
        /\ notes[c] # <<>>
        /\ bpc = "bcast" /\ \E i \in idx..Len(snap) : snap[i] = c
        /\ d \in subscribers

\* C19: on a connection the responses come in the order of the messages, one for
\* each, and a message is read only when every message before it has had its
\* response sent
C19_SerialOrder ==
    /\ [](\A c \in Conns :
            /\ \A j \in 1..Len(out[c]) : out[c][j].req = j
            /\ Len(out[c]) \in {reqCount[c] - 1, reqCount[c]}
            /\ pc[c] = "recv" => Len(out[c]) = reqCount[c])
    /\ [][\A c \in Conns : Reads(c) => (Len(out[c]) = reqCount[c] /\ pend[c] = NoResp)]_vars

\* a connection had its first request answered by a handler that awaited the node
\* and its second one answered at once, in that order, while the other connection
\* was answered too
C19_Witness ==
    \E c, d \in Conns :
        /\ c # d
        /\ Len(out[c]) = 2
        /\ <<c, 1>> \in invoked /\ <<c, 2>> \notin invoked
        /\ out[c][1].req = 1 /\ out[c][2].req = 2
        /\ out[d] # <<>>

\* C20: a message that cannot be parsed, so that no id can be recovered from it, is
\* dropped: no response is sent for it
C20_UnparsableDropped ==
    \A c \in Conns : \A k \in 1..Len(reqLog[c]) :
        reqLog[c][k].kind = "unparsable" => RespFor(c, k) = {}

\* ----------------------------------------------------------- tracker claims

\* C21: wait_for_receipt returns the first non-null receipt a poll observes, at once:
\* a query that returned a receipt is the last query made, no sleep follows it, and
\* the value returned is that receipt.
C21_FirstReceipt ==
    /\ \A i \in 1..Len(seen) :
          seen[i].out = "receipt" =>
             /\ i = Len(seen)
             /\ wfrPc = "returned"
             /\ wfrRet = seen[i].rec
             /\ sleeps = i - 1
    /\ wfrPc = "returned" => (seen # <<>> /\ seen[Len(seen)].out = "receipt")

\* a receipt is returned by the third poll, after a poll that found none and one that failed
C21_Witness ==
    /\ wfrPc = "returned"
    /\ Len(seen) = 3
    /\ {seen[1].out, seen[2].out} = {"none", "fail"}
    /\ wfrRet \in MinedReceipts

\* C22: when the receipt never appears wait_for_receipt fails with Timeout; with
\* timeout = 1s, poll interval = 2s and queries that take no time it has made exactly
\* one poll when it raises.
C22_OnePollThenTimeout ==
    (/\ wfrPc = "timeout"
     /\ timeoutSec = 1
     /\ pollSec = 2
     /\ \A i \in 1..Len(seen) : seen[i].dur = 0)
        => Len(seen) = 1

\* the query of wait_for_receipt fails on this step
QueryFails == Len(seen') = Len(seen) + 1 /\ seen'[Len(seen')].out = "fail"

\* C23: a failed receipt query is never surfaced: the call goes on as after a query
\* that found no receipt (sleep, or Timeout past the deadline), and a call that is over
\* returned a receipt or raised Timeout.
C23_FailureSwallowed ==
    [][/\ QueryFails =>
              /\ wfrPc' = (IF now' > deadline THEN "timeout" ELSE "sleep")
              /\ wfrRet' = wfrRet
       /\ wfrPc' \in {"idle", "query", "sleep", "returned", "timeout"}]_vars

\* every one of the three queries of a call failed and the call ended with Timeout
C23_Witness ==
    /\ wfrPc = "timeout"
    /\ Len(seen) = 3
    /\ \A i \in 1..Len(seen) : seen[i].out = "fail"

\* head h gives the receipt of block b the depth n
Deep(h, b, n) == h - b + 1 >= n

\* C24: for a receipt with block number b ensure_confirmations returns only after a
\* head query observed a head h with h - b + 1 >= confirmations, at the first such
\* observation, and returns the receipt it was passed.
C24_ReturnsAtDepth ==
    (ecPc # "idle" /\ BlockNumberOf(receipt) # NoInt) =>
        /\ \A i \in 1..Len(heads) :
              Deep(heads[i], BlockNumberOf(receipt), confirmations) =>
                 /\ i = Len(heads)
                 /\ ecPc = "returned"
        /\ ecPc = "returned" =>
              /\ heads # <<>>
              /\ Deep(heads[Len(heads)], BlockNumberOf(receipt), confirmations)
              /\ ecRet = receipt
              /\ ecSleeps = Len(heads) - 1

\* with confirmations = 3 a receipt of block 0 is returned when the third head query
\* reports block 2, the first two having reported blocks 0 and 1
C24_Witness ==
    /\ ecPc = "returned"
    /\ confirmations = 3
    /\ BlockNumberOf(receipt) = 0
    /\ heads = <<0, 1, 2>>

\* C25: for a receipt without a block number ensure_confirmations returns the same
\* receipt at once, whatever the confirmations value, with no head query and no sleep.
C25_NoBlockNumber ==
    (ecPc # "idle" /\ BlockNumberOf(receipt) = NoInt) =>
        /\ ecPc = "returned"
        /\ ecRet = receipt
        /\ heads = <<>>
        /\ ecSleeps = 0

\* a receipt with no blockNumber key came back from a call with confirmations = 3
C25_Witness ==
    /\ ecPc = "returned"
    /\ "blockNumber" \notin DOMAIN receipt
    /\ confirmations = 3
    /\ ecRet = receipt

\* ------------------------------------------------------- GasStrategy claims

\* C26: with a legacy gas price configured, apply returns the legacy price field alone,
\* holding the configured gwei amount in wei, and makes no gas price query.
C26_LegacyOnly ==
    legacy_gwei # NoGwei =>
        \A k \in ApplyCalls :
            gasPc[k] # "idle" =>
                /\ gasPc[k] = "returned"
                /\ DOMAIN gasRet[k] = {"gasPrice"}
                /\ gasRet[k].gasPrice = to_wei(legacy_gwei)
                /\ legacy_gwei.exp = 0 => gasRet[k].gasPrice = legacy_gwei.mant * WeiPerGwei
                /\ gasQueries[k] = 0

\* both calls returned 1500000000 wei for a legacy price of 1.5 gwei
C26_Witness ==
    /\ legacy_gwei = [mant |-> 15, exp |-> 1]
    /\ \A k \in ApplyCalls : gasPc[k] = "returned" /\ gasRet[k] = [gasPrice |-> 1500000000]

\* C27: with no legacy gas price, a call of apply makes exactly one gas price query and
\* returns exactly the fields max fee = floor(base * max_multiplier) and max priority
\* fee = priority_gwei in wei; two calls that saw the same price return the same dict.
C27_Eip1559Fields ==
    legacy_gwei = NoGwei =>
        /\ \A k \in ApplyCalls :
              /\ gasQueries[k] = (IF gasPc[k] = "idle" THEN 0 ELSE 1)
              /\ gasPc[k] = "returned" =>
                    /\ DOMAIN gasRet[k] = {"maxFeePerGas", "maxPriorityFeePerGas"}
                    /\ gasRet[k].maxFeePerGas * max_multiplier.den <= gasBase[k] * max_multiplier.num
                    /\ gasBase[k] * max_multiplier.num < (gasRet[k].maxFeePerGas + 1) * max_multiplier.den
                    /\ gasRet[k].maxPriorityFeePerGas = to_wei(priority_gwei)
        /\ \A j, k \in ApplyCalls :
              (gasPc[j] = "returned" /\ gasPc[k] = "returned" /\ gasBase[j] = gasBase[k])
                  => gasRet[j] = gasRet[k]

\* with multiplier 1.5 and priority fee 1 gwei, two calls that saw 7 wei both returned
\* max fee 10 (the floor of 10.5) and max priority fee 1000000000
C27_Witness ==
    /\ legacy_gwei = NoGwei
    /\ max_multiplier = [num |-> 3, den |-> 2]
    /\ \A k \in ApplyCalls :
          /\ gasPc[k] = "returned"
          /\ gasBase[k] = 7
          /\ gasRet[k] = [maxFeePerGas |-> 10, maxPriorityFeePerGas |-> 1000000000]

\* ----------------------------------------------------------- startup claims

\* C28: if the node reports a chain id other than the configured one,
\* build_default_server fails and returns no server: the gateway never listens, accepts
\* no connection and starts no broadcaster.
C28_ChainIdMismatch ==
    (reported # NoInt /\ reported # cfgChainId) =>
        /\ srvpc = "failed"
        /\ ~Listening
        /\ \A c \in Conns : conn[c] = "new"
        /\ bpc = "unborn"
        /\ handlers = {}

\* the node was reached on the third probe and reported chain 1114 to a gateway
\* configured for chain 1116
C28_Witness ==
    /\ probes = 2
    /\ cfgChainId = 1116
    /\ reported = 1114

\* ------------------------------------------------------------ handler claims

\* the message connection c reads on this step
ReadMsg(c) == reqLog'[c][reqCount'[c]]

\* C29: with no signing key configured each write request (erc20.transfer,
\* erc20.approve, defi.swapExactTokensForTokens, erc20.permitSign) is answered with an
\* error; for it no nonce is allocated, no chain query is made, nothing is submitted.
C29_NoKeyRefused ==
    [][~cfgKey =>
          \A c \in Conns :
              /\ (Reads(c) /\ ReadMsg(c).method \in KeyMethods) =>
                    /\ pc'[c] = "send"
                    /\ pend'[c].kind = "error"
                    /\ UNCHANGED <<locks, nonces, okQueries, gnRet, txNonce, submitted>>
              /\ (Len(out'[c]) > Len(out[c]) /\ cur[c].method \in KeyMethods) =>
                    out'[c][Len(out'[c])].kind = "error"]_vars

\* with every method enabled, a connection was refused a swap and a permit signature
\* for want of the key, each by an error response, and nothing was submitted
C29_Witness ==
    /\ ~cfgKey
    /\ cfgEnabled = {"*"}
    /\ submitted = {}
    /\ nonces = <<>>
    /\ \E c \in Conns :
          /\ Len(out[c]) = 2
          /\ {reqLog[c][1].method, reqLog[c][2].method} = {SwapMethod, "erc20.permitSign"}
          /\ \A j \in 1..2 : out[c][j] = ErrorResp(j, 7, -32000, "No private key configured")

\* C30: an rpc.call request goes to the upstream node only if its inner method is in
\* cfg.server_rpc_allow_methods; for any other inner method, a missing one included,
\* the request is answered with an error and no upstream request is made.
C30_RpcAllowList ==
    [][\A c \in Conns :
          /\ pc'[c] = "raw_call" => Inner(reqLog'[c][reqCount'[c]]) \in cfgRpcAllow
          /\ (Reads(c) /\ ReadMsg(c).method = "rpc.call" /\ Inner(ReadMsg(c)) \notin cfgRpcAllow) =>
                /\ pc'[c] = "send"
                /\ pend'[c] = ErrorResp(reqCount'[c], ReadMsg(c).id, -32000, "RPC method not allowed")]_vars

\* under the default allow-list a connection had eth_call forwarded and answered with
\* its result, then eth_sendRawTransaction refused; the other had a request without
\* inner method refused
C30_Witness ==
    /\ cfgRpcAllow = DefaultRpcAllow
    /\ \E c, d \in Conns :
          /\ Len(out[c]) = 2
          /\ Inner(reqLog[c][1]) = "eth_call"
          /\ out[c][1].kind = "result"
          /\ Inner(reqLog[c][2]) = "eth_sendRawTransaction"
          /\ out[c][2].body = "RPC method not allowed"
          /\ Len(out[d]) = 1
          /\ Inner(reqLog[d][1]) = NoMethod
          /\ out[d][1].body = "RPC method not allowed"

\* the head query of ensure_confirmations fails on this step: it was pending, is so
\* no more, and no head was observed
HeadQueryFails == ecPc = "query" /\ ecPc' # "query" /\ heads' = heads

\* C39: a failed chain head query during ensure_confirmations is not swallowed or
\* retried: the call ends with the exception at once, with no sleep and no further
\* query, whereas a failed receipt query of wait_for_receipt is followed by the sleep
\* or by Timeout.
C39_HeadFailurePropagates ==
    [][/\ HeadQueryFails =>
              /\ ecPc' = "raised"
              /\ ecSleeps' = ecSleeps
              /\ ecRet' = ecRet
       /\ ecPc = "raised" => (ecPc' = "raised" /\ heads' = heads)
       /\ QueryFails => wfrPc' \in {"sleep", "timeout"}]_vars

\* a receipt was returned after a receipt query that failed, and ensure_confirmations
\* on it ended with the exception of its second head query
C39_Witness ==
    /\ wfrPc = "returned"
    /\ \E i \in 1..Len(seen) : seen[i].out = "fail"
    /\ ecPc = "raised"
    /\ Len(heads) = 1
    /\ ecSleeps = 1

\* a receipt query of wait_for_receipt ends on this step
QueryEnds == Len(seen') = Len(seen) + 1

\* C40: wait_for_receipt starts a query whatever the timeout (0 included) and tests
\* the deadline only after a query that produced no receipt: a receipt observed by a
\* query is returned even when the deadline had passed before the query began, and
\* Timeout is raised only on the step that ends a receipt-less query, past the deadline.
C40_DeadlineAfterQuery ==
    [][/\ wfrPc = "idle" /\ wfrPc' # "idle" => wfrPc' = "query"
       /\ (QueryEnds /\ seen'[Len(seen')].out = "receipt") =>
              /\ wfrPc' = "returned"
              /\ wfrRet' = seen'[Len(seen')].rec
       /\ (wfrPc' = "timeout" /\ wfrPc # "timeout") =>
              /\ wfrPc = "query"
              /\ QueryEnds
              /\ seen'[Len(seen')].out \in {"none", "fail"}
              /\ now' > deadline]_vars

\* with timeout 0 the second query began after the deadline and its receipt was returned
C40_Witness ==
    /\ wfrPc = "returned"
    /\ timeoutSec = 0
    /\ Len(seen) = 2
    /\ now - seen[2].dur > deadline
    /\ wfrRet = seen[2].rec

\* ------------------------------------------------------------ later claims

\* C38: an empty allow-list, which is what an empty SCEPTIC_SERVER_ENABLE_METHODS
\* yields, disables nothing: no request is answered "Method disabled", a request for
\* a registered method calls its handler, events.subscribe and events.unsubscribe are
\* answered {ok: true}, and an unregistered method is answered "Method not found",
\* as with the allow-list "*".
C38_EmptyListDisablesNothing ==
    /\ server_enable_methods(<<Field("", FALSE)>>) = {}
    /\ server_enable_methods(<<Field("", TRUE), Field("", TRUE)>>) = {}
    /\ cfgEnabled = {} =>
          \A c \in Conns : \A k \in 1..Len(reqLog[c]) :
              LET m == reqLog[c][k] IN
              /\ \A j \in RespFor(c, k) : out[c][j].body # "Method disabled"
              /\ (m.kind = "request" /\ m.method \in handlers \ EventHandlers)
                     => <<c, k>> \in invoked
              /\ (m.kind = "request" /\ m.method \in handlers \cap EventHandlers)
                     => /\ <<c, k>> \notin invoked
                        /\ \A j \in RespFor(c, k) :
                              out[c][j].kind = "result" /\ out[c][j].body = "ok"
              /\ (m.kind = "request" /\ m.method # Unhashable /\ m.method \notin handlers)
                     => \A j \in RespFor(c, k) : out[c][j].body = "Method not found"
              /\ Processed(c, k) => RespFor(c, k) # {}

\* under the empty allow-list a connection had health answered with a result, then
\* subscribed, and another was told that its method is not registered
C38_Witness ==
    /\ cfgEnabled = {}
    /\ \E c, d \in Conns :
          /\ c # d
          /\ Len(out[c]) = 2
          /\ reqLog[c][1].method = "health" /\ out[c][1].kind = "result"
          /\ reqLog[c][2].method = "events.subscribe" /\ out[c][2].body = "ok"
          /\ c \in subscribers
          /\ Len(out[d]) = 1 /\ out[d][1].body = "Method not found"

\* the block numbers notified to connection c
BlocksOf(c) == {notes[c][i] : i \in 1..Len(notes[c])}

\* the head query of a tick returns on this step
TickQueryReturns == bpc = "poll" /\ bpc' # "poll" /\ pollFails' = 0 /\ srvpc' = "serving"

\* C36: _last_block, once set, never decreases: a tick whose head is not above it
\* goes to sleep with nothing sent and _last_block as it was, every notification is
\* for a block above _last_block, and so no connection is notified of a block number
\* twice, also when the head regresses and then advances again.
C36_LastSeenMonotone ==
    [][/\ lastBlock # NoInt => lastBlock' >= lastBlock
       /\ (TickQueryReturns /\ lastBlock # NoInt /\ obs'.head <= lastBlock) =>
              (bpc' = "sleep" /\ lastBlock' = lastBlock /\ notes' = notes)
       /\ (TickQueryReturns /\ bpc' = "bcast") =>
              (lastBlock # NoInt /\ obs'.head > lastBlock /\ curBlock' = lastBlock + 1)
       /\ \A c \in Conns :
             notes'[c] # notes[c] =>
                /\ notes'[c] = Append(notes[c], curBlock)
                /\ curBlock > lastBlock
                /\ curBlock \notin BlocksOf(c)]_vars

\* the head was 1, fell back to 0 and then rose to 2: a connection subscribed all
\* along was notified of blocks 1 and 2, once each
C36_Witness ==
    \E c \in Conns :
        /\ obs.regressedAt = 1
        /\ lastBlock = 2
        /\ tickFrom = 1
        /\ notes[c] = <<1, 2>>
        /\ bpc = "sleep"

\* C37: when the head query made at the start fails the broadcaster goes on to its
\* loop with no baseline; the first tick whose query succeeds takes its head as
\* _last_block and goes to sleep with nothing sent, and no notification is ever sent
\* for that head or a lower block.
C37_LateBaseline ==
    /\ [][/\ (bpc = "init" /\ obs'.initFailed) => (bpc' = "poll" /\ lastBlock' = NoInt)
          /\ obs'.adopted # obs.adopted =>
                /\ lastBlock = NoInt
                /\ lastBlock' = obs'.adopted
                /\ bpc' = "sleep"
                /\ notes' = notes]_vars
    /\ [](lastBlock = NoInt => \A c \in Conns : notes[c] = <<>>)
    /\ [](obs.adopted # NoInt => \A c \in Conns : \A b \in BlocksOf(c) : b > obs.adopted)

\* the first query failed, a tick took head 1 as the baseline, and a connection
\* subscribed by then was notified of block 2 only
C37_Witness ==
    \E c \in Conns :
        /\ obs.initFailed
        /\ obs.adopted = 1
        /\ lastBlock = 2
        /\ notes[c] = <<2>>
        /\ c \in subscribers

\* the tick is over and every connection subscribed throughout, with no failed send,
\* has been sent each block above the baseline up to the head, in order
TickDelivered ==
    /\ bpc = "sleep"
    /\ tickDone
    /\ lastBlock = tickHead
    /\ \A c \in steady : tickSent[c] = Run(tickFrom + 1, tickHead)

\* C35: under fair scheduling of the broadcaster, once a head query has returned a
\* head above _last_block every connection that stays subscribed and whose sends
\* succeed is eventually sent the events.block notes of all blocks above the baseline
\* up to that head (unless the server shuts down first); the loop always comes back
\* to its head query, and the task is over only after its cancellation.
C35_EventuallyNotified ==
    /\ (bpc = "bcast") ~> (TickDelivered \/ srvpc # "serving")
    /\ (bpc \in {"init", "sleep"}) ~> (bpc = "poll" \/ srvpc # "serving")
    /\ [](bpc = "stopped" => srvpc \in {"stopping", "finished"})

\* a tick from baseline 0 to head 2 is over, and the two connections, subscribed
\* throughout, were sent blocks 1 and 2
C35_Witness ==
    /\ TickDelivered
    /\ srvpc = "serving"
    /\ tickFrom = 0 /\ tickHead = 2
    /\ steady = Conns
    /\ \A c \in Conns : notes[c] = <<1, 2>>

\* the 20-byte address a spelling denotes, whatever the case of its letters
AddressOf(a) ==
    CASE a \in {"0xab", "0xAB", "0xAb"} -> 171
      [] a \in {"0xcd", "0xCD", "0xCd"} -> 205
      [] OTHER -> NoInt

\* the direct callers whose get_next for a spelling of address v returned, and the
\* values returned to them
DoneAt(v) == {t \in Callers : pc[t] = "gn_done" /\ AddressOf(gnAddr[t]) = v}
NoncesAt(v) == {gnRet[t] : t \in DoneAt(v)}

\* the responses to the k-th message of c tell of no failure of the upstream node
Healthy(c, k) == \A j \in RespFor(c, k) : out[c][j].body # "upstream error"

\* the transactions submitted for the k-th message of c
SubmittedFor(c, k) == {s \in submitted : s.conn = c /\ s.req = k}

\* the integer the text of SCEPTIC_CHAIN_ID writes, 1116 when the variable is unset
WrittenChainId(v) ==
    IF ~v.set THEN 1116 ELSE (CHOOSE e \in EnvChainIds : e.text = v.text).value

\* C31: from_env returns rpc_http_url equal to SCEPTIC_RPC_HTTP_URL whenever that is
\* non-empty, uses the default of the chain profile only when it is empty or unset,
\* and returns chain_id equal to the integer SCEPTIC_CHAIN_ID writes (1116 when
\* unset), for every chain id; it raises only when the text writes no integer.
C31_FromEnv ==
    envCfg # NoConfig =>
        LET http == env.SCEPTIC_RPC_HTTP_URL
            want == WrittenChainId(env.SCEPTIC_CHAIN_ID)
        IN /\ (want = NoInt) <=> (envCfg = RaisedValueError)
           /\ want # NoInt =>
                 /\ envCfg.chain_id = want
                 /\ (http.set /\ http.text # "") => envCfg.rpc_http_url = http.text
                 /\ (~http.set \/ http.text = "") =>
                       envCfg.rpc_http_url =
                          (IF want = 1114 THEN "https://rpc.test2.btcs.network" ELSE "")

\* SCEPTIC_CHAIN_ID=1114, whose profile has a default endpoint, and
\* SCEPTIC_RPC_HTTP_URL=http://localhost:8545: the URL of the environment is returned
C31_Witness ==
    /\ env.SCEPTIC_CHAIN_ID = SetTo(<<"1", "1", "1", "4">>)
    /\ env.SCEPTIC_RPC_HTTP_URL = SetTo("http://localhost:8545")
    /\ envCfg # NoConfig
    /\ envCfg.rpc_http_url = "http://localhost:8545"
    /\ envCfg.chain_id = 1114

\* C32: with a signing key and a healthy upstream, a defi.swapExactTokensForTokens
\* request that has been processed led to exactly one submission, carrying the nonce
\* get_next returned and the fee fields apply returned, and was answered with a
\* result holding the transaction hash.
C32_SwapSubmitted ==
    \A c \in Conns : \A k \in 1..Len(reqLog[c]) :
        (cfgKey /\ reqLog[c][k].method = SwapMethod /\ Processed(c, k) /\ Healthy(c, k)) =>
            /\ Cardinality(SubmittedFor(c, k)) = 1
            /\ \A s \in SubmittedFor(c, k) :
                  DOMAIN s.fees = {"maxFeePerGas", "maxPriorityFeePerGas"}
            /\ \A j \in RespFor(c, k) :
                  out[c][j].kind = "result" /\ out[c][j].body = "tx_hash"

\* C33: the lock and the counter of NonceManager are keyed by the checksummed
\* address: calls given different spellings of one address are never inside the
\* critical section together, with no reset their results are pairwise distinct and
\* contiguous, and a reset given one spelling removes the counter every spelling of
\* the address reads.
C33_SpellingsShareKey ==
    /\ [](\A t, u \in Callers :
             (t # u /\ pc[t] = "gn_query" /\ pc[u] = "gn_query")
                 => AddressOf(gnAddr[t]) # AddressOf(gnAddr[u]))
    /\ [](TotalResets = 0 =>
             \A v \in {171, 205} :
                 /\ Cardinality(NoncesAt(v)) = Cardinality(DoneAt(v))
                 /\ \A x, y \in NoncesAt(v) : \A n \in x..y : n \in NoncesAt(v))
    /\ [][resetCalls' # resetCalls =>
             \A b \in Spellings :
                 AddressOf(b) = AddressOf(resetAddr') => Key(b) \notin DOMAIN nonces']_vars

\* calls spelled 0xab and 0xAB returned consecutive nonces; then reset was given
\* 0xAB, and the next call, spelled 0xab, queried the chain anew
C33_Witness ==
    \E t, u, w \in Callers :
        /\ pc[t] = "gn_done" /\ gnAddr[t] = "0xab" /\ ~afterReset[t]
        /\ pc[u] = "gn_done" /\ gnAddr[u] = "0xAB" /\ ~afterReset[u]
        /\ gnRet[u] = gnRet[t] + 1
        /\ queried[u] = NoInt
        /\ resetAddr = "0xAB"
        /\ pc[w] = "gn_done" /\ gnAddr[w] = "0xab" /\ afterReset[w]
        /\ queried[w] # NoInt /\ gnRet[w] = queried[w]

\* the swap handler of c fails on this step, after its get_next returned: at the fee
\* query or at the submission
SwapFails(c) ==
    /\ pc[c] \in {"sw_gasprice", "sw_send"}
    /\ pc'[c] = "send"
    /\ pend'[c].kind = "error"

\* get_next returns to the swap handler of c on this step
Allocates(c) == pc[c] # "sw_gasprice" /\ pc'[c] = "sw_gasprice"

\* C34: the gateway never rolls an allocation back and never calls reset: when the
\* swap handler fails after get_next returned n the signer's counter is left as it
\* is, above n, the counter only ever grows, by one per allocation, and an allocation
\* returns the counter's value, so that the allocation after a failed one with nonce
\* n returns n+1.
C34_NoRollback ==
    /\ [][\A c \in Conns :
            LET k == Key(SignerAddress) IN
            /\ SwapFails(c) =>
                  /\ k \in DOMAIN nonces
                  /\ nonces' = nonces
                  /\ nonces[k] > gnRet[c]
                  /\ resetCalls' = resetCalls
            /\ Allocates(c) =>
                  /\ k \in DOMAIN nonces => gnRet'[c] = nonces[k]
                  /\ nonces'[k] = gnRet'[c] + 1
            /\ k \in DOMAIN nonces =>
                  /\ k \in DOMAIN nonces'
                  /\ nonces'[k] \in {nonces[k], nonces[k] + 1}
                  /\ nonces'[k] # nonces[k] => \E d \in Conns : Allocates(d)]_vars
    /\ [](TotalResets = 0)

\* the only two requests made were swaps on one connection: the first was given the
\* chain's count n and failed, and get_next has returned n+1 to the second
C34_Witness ==
    \E c \in Conns :
        LET k == Key(SignerAddress) IN
        /\ \A d \in Conns \ {c} : reqCount[d] = 0
        /\ reqCount[c] = 2
        /\ reqLog[c][1].method = SwapMethod /\ reqLog[c][2].method = SwapMethod
        /\ Len(out[c]) = 1
        /\ out[c][1].kind = "error"
        /\ okQueries[k] = 1
        /\ pc[c] = "sw_gasprice"
        /\ gnRet[c] = firstCount[k] + 1

====
